---------------------------- MODULE Spec2Model ----------------------------
(***************************************************************************)
(* NEXAIDE agent bridge: the protocol-A JSON-RPC client CodexAgentService  *)
(* (`codex app-server` over stdio), the parts of AIChatViewProvider that   *)
(* own it, and the CLI fallback of the protocol-B TraeAgentService.        *)
(*                                                                         *)
(* Scheduling model (Node.js): event callbacks (a 'line' of stdout, the    *)
(* process 'spawn' / 'error' / 'exit' events, a write callback, a webview  *)
(* message, a public call) are the steps.  The continuation of an `await`  *)
(* is a step of its own (a microtask): it runs after the callback that     *)
(* settled the promise, and before any later event, except that readline   *)
(* emits all the lines of one stdout chunk synchronously, so further       *)
(* 'line' callbacks may run before a pending continuation.                 *)
(***************************************************************************)
EXTENDS Integers, Sequences, FiniteSets, TLC

\* ------------------------------------------------------------- bounds
NumCallers == 2          \* sendMessage() calls made on one service instance
MaxSeq == 5              \* request ids the client may issue (requestSeq <= MaxSeq)
MaxServerId == 1         \* server-initiated request ids are 0..MaxServerId
MaxReplies == 2          \* decision replies recorded per server request id
MaxPendingFinally == 1   \* approval decisions whose write has not completed yet
MaxRuns == 3             \* initializeAgentBackend calls (the constructor's is run 1)
MaxParseErrors == 2      \* parse errors counted
NumExecs == 2            \* TraeAgentService.executeAgent calls reaching the CLI fallback
MaxChunks == 1           \* stdout chunks one CLI child writes
MaxErrChunks == 1        \* stderr chunks one CLI child writes
MaxAttempts == 2         \* MCP connection attempts (ensureMCPConnected bodies run)
MaxItems == 2            \* content items of one tool result
MaxEntries == 1          \* elements of one tool_calls or tool_results array
MaxSteps == 2            \* elements of agent_steps

Callers == 1..NumCallers
Runs == 1..MaxRuns
ReqIds == 1..MaxSeq
ServerIds == 0..MaxServerId
NoId == 0 - 1            \* the `id` member is absent (typeof id === 'undefined')

TurnIds == {"t1", "t2"}
ThreadIds == {"th1", "th2"}
Cwds == {"dirA", "dirB"}
NoResponseText == "(no response)"
Texts == {"x", NoResponseText}
None == "none"

\* ------------------------------------------------------------- state
VARIABLES
    \* CodexAgentService fields
    process,              \* none | spawning | running | exited | failed
    killed,               \* process.killed
    reader,               \* none | open | closed  (readline on stdout)
    requestSeq,
    pendingRequests,      \* set of request ids with a registered PendingPromise
    pendingTurns,         \* turn id -> waiting caller (0: no entry)
    bufferedTurnResults,  \* turn id -> text of the buffered result (None: no entry)
    initializePromise,    \* none | pending | fulfilled | rejected
    threadId, threadCwd, currentTurnId,
    disposed, available,
    \* positions of the asynchronous functions
    sp,                   \* startProcess: [pc, req]
    caller,               \* sendMessage calls: c -> [pc, wd, req, res]
    \* AIChatViewProvider fields used for approvals
    codexPendingApprovalId,
    approvalFinally,      \* handleCodexApprovalDecision calls awaiting their write
    \* observation of the wire and of the promises (history)
    spawnCount,           \* processes spawned by this instance
    initWritten,          \* `initialize` requests written to stdin
    settled,              \* request id -> times its PendingPromise was settled
    answered,             \* ids for which a response line was handled while registered
    bufferedUses,         \* turn id -> sendMessage returns served by its buffered entry
    execIds,              \* server request ids emitted as execApproval
    seenServerIds,        \* server request ids the agent has used
    replyCount,           \* server request id -> decision replies written
    lastReply,            \* the last decision reply written
    openTurns,            \* turns the agent has started and not yet completed
    parseErrors,          \* 'error' events emitted for lines that are not JSON
    \* handleLine's dispatch, applied to one parsed line
    line, route,
    \* parseTrajectoryFile as a function: the parsed trace and what it returns
    trajectory, trajResult,
    \* AIChatViewProvider: the backend it owns
    codexAgent,           \* the CodexAgentService it references (0: undefined)
    services,             \* instance -> none | live | disposed
    preferredAgentBackend, codexBinaryPath, agentBackend,
    run,                  \* initializeAgentBackend calls: r -> [pc, force]
    useAgentMode,
    msg,                  \* the handleAIMessage call: position, outcome
    \* TraeAgentService: the CLI fallback of executeAgent
    currentProcess,       \* this.currentProcess: the execution whose child it is (0: null)
    cli,                  \* executions: e -> closure variables, timers, child, promise
    \* TraeAgentService: availability and the MCP connection
    isAvailable,
    mcpClient,            \* the attempt whose Client object it is (0: null)
    mcpTransport,         \* the attempt whose transport it is (0: null)
    mcpConnectingPromise, \* the attempt whose promise it is (0: undefined)
    lastMCPIssue,
    conn,                 \* attempts: a -> position, outcome, transport and what it saw
    call                  \* executeAgent calls: e -> position before the CLI fallback

svcVars == <<process, killed, reader, requestSeq, pendingRequests, pendingTurns,
             bufferedTurnResults, initializePromise, threadId, threadCwd,
             currentTurnId, disposed, available, sp, caller>>
uiVars == <<codexPendingApprovalId, approvalFinally>>
obsVars == <<spawnCount, initWritten, settled, answered, bufferedUses,
             execIds, seenServerIds, replyCount, lastReply>>
agentVars == <<openTurns>>
rawVars == <<parseErrors>>
dispatchVars == <<line, route>>
trajVars == <<trajectory, trajResult>>
facadeVars == <<codexAgent, services, preferredAgentBackend, codexBinaryPath,
                agentBackend, run>>
traeVars == <<currentProcess, cli>>
msgVars == <<useAgentMode, msg>>
mcpVars == <<isAvailable, mcpClient, mcpTransport, mcpConnectingPromise, lastMCPIssue,
             conn, call>>
vars == <<svcVars, uiVars, obsVars, agentVars, rawVars, dispatchVars, trajVars,
          facadeVars,
          traeVars, mcpVars, msgVars>>


\* ------------------------------------------------------- inbound lines
\* One parsed line of the agent's stdout.  Members that are absent from the
\* JSON object are None / NoId / FALSE.  `result` keeps the JSON value kinds
\* apart because handleLine tests the member's truthiness.
Methods == {"execCommandApproval", "applyPatchApproval", "unknownRequest",
            "turn/completed", "turn/started", "item/agentMessage/delta"}
FalsyResults == {"null", "emptyString", "zero", "false"}
PlainResults == {"object", "string", "number", "true"}
ResultVals == FalsyResults \cup PlainResults \cup ThreadIds \cup TurnIds
\* result "th1" stands for {thread: {id: "th1"}}, "t1" for {turn: {id: "t1"}}

Msg(method, id, params, turn, text, result, error) ==
    [method |-> method, id |-> id, params |-> params, turn |-> turn,
     text |-> text, result |-> result, error |-> error]

\* {id, result} and {id, error} lines of every id and every result value
ResponseLines ==
    {Msg(None, id, FALSE, None, None, r, FALSE) :
        id \in ({0} \cup ReqIds), r \in ResultVals}
    \cup {Msg(None, id, FALSE, None, None, None, TRUE) : id \in ({0} \cup ReqIds)}
\* {method, params} lines without id
NotificationLines ==
    {Msg(me, NoId, TRUE, t, x, None, FALSE) :
        me \in {"turn/completed"}, t \in (TurnIds \cup {None}), x \in Texts}
    \cup {Msg(me, NoId, TRUE, t, None, None, FALSE) :
        me \in {"turn/started"}, t \in TurnIds}
    \cup {Msg("item/agentMessage/delta", NoId, TRUE, None, None, None, FALSE)}
\* {id, method, params?} lines
ServerRequestLines ==
    {Msg(me, id, p, None, None, None, FALSE) :
        me \in {"execCommandApproval", "applyPatchApproval", "unknownRequest"},
        id \in ServerIds, p \in BOOLEAN}
Lines == ResponseLines \cup NotificationLines \cup ServerRequestLines

Truthy(v) == v /= None /\ v \notin FalsyResults
HasId(m) == m.id /= NoId                  \* typeof parsed.id !== 'undefined'
TruthyId(m) == m.id /= NoId /\ m.id /= 0  \* parsed.id as a condition

\* handleLine's if / else-if chain: which handler a parsed line reaches.
Route(m) ==
    IF m.method /= None /\ HasId(m) /\ m.params THEN "handleServerRequest"
    ELSE IF m.method /= None /\ ~TruthyId(m) THEN "handleNotification"
    ELSE IF HasId(m) /\ Truthy(m.result) THEN "handleResponse"
    ELSE IF HasId(m) /\ m.error THEN "rejectPending"
    ELSE "dropped"

ThreadOf(r) == IF r \in ThreadIds THEN r ELSE None   \* response?.thread?.id
TurnOf(r) == IF r \in TurnIds THEN r ELSE None       \* turnResponse?.turn?.id

\* ----------------------------------------------------------- helpers
\* process.stdin.writable
Writable == process \in {"spawning", "running"}

\* A continuation of an await is ready to run.
MicrotaskPending ==
    \/ sp.pc = "gotInit"
    \/ \E c \in Callers :
          \/ caller[c].pc \in {"gotThread", "threadStarted", "gotTurn"}
          \/ caller[c].pc = "awaitInit" /\ initializePromise \in {"fulfilled", "rejected"}

Idle == [pc |-> "idle", wd |-> None, req |-> 0, res |-> None, thread |-> None]

\* pending.resolve(result) of request id, as seen by the function awaiting it
ResolveCaller(cl, id, r) ==
    [c \in Callers |->
        IF cl[c].req = id /\ cl[c].pc = "awaitThread"
            THEN [cl[c] EXCEPT !.pc = "gotThread", !.res = ThreadOf(r)]
        ELSE IF cl[c].req = id /\ cl[c].pc = "awaitTurn"
            THEN [cl[c] EXCEPT !.pc = "gotTurn", !.res = TurnOf(r)]
        ELSE IF cl[c].req = id /\ cl[c].pc = "awaitIntr"
            THEN [cl[c] EXCEPT !.pc = "intrDone"]
        ELSE cl[c]]
\* pending.reject(error) of the request ids in S
RejectCallers(cl, S) ==
    [c \in Callers |->
        IF cl[c].req \in S /\ cl[c].pc \in {"awaitThread", "awaitTurn"}
            THEN [cl[c] EXCEPT !.pc = "rejected", !.res = "request failed"]
        ELSE IF cl[c].req \in S /\ cl[c].pc = "awaitIntr"
            THEN [cl[c] EXCEPT !.pc = "intrDone", !.res = "interrupt failed"]
        ELSE cl[c]]
InitOwned(S) == sp.pc = "awaitInit" /\ sp.req \in S

Bump(f, S) == [i \in DOMAIN f |-> IF i \in S THEN f[i] + 1 ELSE f[i]]

\* ----------------------------------------------------------- Init
InitService ==
    /\ process = "none" /\ killed = FALSE /\ reader = "none"
    /\ requestSeq = 1
    /\ pendingRequests = {}
    /\ pendingTurns = [t \in TurnIds |-> 0]
    /\ bufferedTurnResults = [t \in TurnIds |-> None]
    /\ initializePromise = "none"
    /\ threadId = None /\ threadCwd = None /\ currentTurnId = None
    /\ disposed = FALSE /\ available = FALSE
    /\ sp = [pc |-> "none", req |-> 0]
    /\ caller = [c \in Callers |-> Idle]
    /\ codexPendingApprovalId = NoId /\ approvalFinally = 0
    /\ spawnCount = 0 /\ initWritten = 0
    /\ settled = [i \in ReqIds |-> 0]
    /\ answered = {}
    /\ bufferedUses = [t \in TurnIds |-> 0]
    /\ execIds = {} /\ seenServerIds = {}
    /\ replyCount = [i \in ServerIds |-> 0]
    /\ lastReply = [id |-> NoId, supplied |-> None, written |-> None]
    /\ openTurns = {}
    /\ parseErrors = 0

\* AIChatViewProvider after its constructor: the configuration defaults are
\* applied (backend codex, no binary path) and the first
\* initializeAgentBackend() has run to `await detectAvailability(...)`.
NoMessage == [pc |-> "none", agentMode |-> FALSE, outcome |-> "none"]

InitFacade ==
    /\ useAgentMode = FALSE
    /\ msg = NoMessage
    /\ codexAgent = 0
    /\ services = [i \in Runs |-> "none"]
    /\ preferredAgentBackend = "codex"
    /\ codexBinaryPath = None
    /\ agentBackend = "codex"
    /\ run = [r \in Runs |-> IF r = 1 THEN [pc |-> "awaitDetect", force |-> FALSE]
                                      ELSE [pc |-> "none", force |-> FALSE]]

EmptyLine == Msg(None, NoId, FALSE, None, None, None, FALSE)

\* A parsed trace without tool calls, and parseTrajectoryFile not yet called.
EmptyTrace == [tool_results |-> <<>>, tool_calls |-> <<>>, agent_steps |-> <<>>]
NotParsed == [parsed |-> FALSE, toolCalls |-> <<>>]

\* TraeAgentService before any executeAgent call.
Execs == 1..NumExecs
\* Exit codes as `${code}` prints them; "null": the child was ended by a signal.
ExitCodes == {"0", "1"}
NullCode == "null"
NegErrno == "-2"         \* the code 'close' reports after a failed spawn
NoResponse == [pending |-> TRUE]
NoExecution ==
    [st |-> "idle", child |-> "none", code |-> NullCode, sig |-> FALSE,
     inact |-> "unset", overall |-> "unset", output |-> <<>>, captured |-> <<>>,
     nOut |-> 0, errorOutput |-> <<>>, nErr |-> 0, progress |-> <<>>,
     res |-> NoResponse]
Attempts == 1..MaxAttempts
NoAttempt ==
    [pc |-> "none", result |-> "pending", transport |-> "none",
     handshake |-> FALSE, tools |-> "unknown"]
\* What a get_session_status call gave: it threw, or a text.
NoStatus == [throws |-> FALSE, text |-> <<>>]
NoArgs == [observation |-> "none", message |-> "none", project_path |-> "none"]
NoCall ==
    [pc |-> "idle", kind |-> "none", wd |-> "none", on |-> 0, connected |-> "unknown",
     client |-> 0, tool |-> "none", status |-> NoStatus, args |-> NoArgs,
     flagged |-> FALSE, res |-> NoResponse]
InitTrae ==
    /\ currentProcess = 0
    /\ cli = [e \in Execs |-> NoExecution]
    /\ isAvailable = FALSE
    /\ mcpClient = 0 /\ mcpTransport = 0 /\ mcpConnectingPromise = 0
    /\ lastMCPIssue = None
    /\ conn = [a \in Attempts |-> NoAttempt]
    /\ call = [e \in Execs |-> NoCall]

Init ==
    /\ InitService
    /\ InitFacade
    /\ InitTrae
    /\ line = EmptyLine /\ route = "unset"
    /\ trajectory = EmptyTrace /\ trajResult = NotParsed


\* ------------------------------------------- CodexAgentService: startup
\* startProcess up to its first await: spawn() and the listeners.  `throws`:
\* spawn() raised synchronously and the promise is rejected.
startProcess(throws) ==
    IF throws
        THEN /\ sp' = [pc |-> "failed", req |-> 0]
             /\ initializePromise' = "rejected"
             /\ UNCHANGED <<process, reader, spawnCount>>
        ELSE /\ process' = "spawning"
             /\ reader' = "open"
             /\ spawnCount' = spawnCount + 1
             /\ sp' = [pc |-> "awaitSpawn", req |-> 0]
             /\ initializePromise' = "pending"

\* ensureReady() up to `await this.initializePromise`, called by sendMessage.
ensureReady_AlwaysStarts(c, wd, throws) ==
    IF disposed
        THEN /\ caller' = [caller EXCEPT ![c] = [@ EXCEPT !.pc = "rejected", !.wd = wd,
                                                  !.res = "unavailable"]]
             /\ UNCHANGED <<process, reader, spawnCount, sp, initializePromise>>
        ELSE /\ startProcess(throws)
             /\ caller' = [caller EXCEPT ![c] = [@ EXCEPT !.pc = "awaitInit", !.wd = wd]]

\* ensureReady without its `if (this.disposed) return false`.
ensureReady_IgnoresDisposed(c, wd, throws) ==
    /\ IF initializePromise = "none"
          THEN startProcess(throws)
          ELSE UNCHANGED <<process, reader, spawnCount, sp, initializePromise>>
    /\ caller' = [caller EXCEPT ![c] = [@ EXCEPT !.pc = "awaitInit", !.wd = wd]]

ensureReady(c, wd, throws) ==
    IF disposed
        THEN /\ caller' = [caller EXCEPT ![c] = [@ EXCEPT !.pc = "rejected", !.wd = wd,
                                                  !.res = "unavailable"]]
             /\ UNCHANGED <<process, reader, spawnCount, sp, initializePromise>>
        ELSE /\ IF initializePromise = "none"
                    THEN startProcess(throws)
                    ELSE UNCHANGED <<process, reader, spawnCount, sp, initializePromise>>
             /\ caller' = [caller EXCEPT ![c] = [@ EXCEPT !.pc = "awaitInit", !.wd = wd]]

\* A call of sendMessage(message, workingDirectory): runs to the await inside
\* ensureReady.
sendMessage(c, wd, throws) ==
    /\ ~MicrotaskPending
    /\ caller[c].pc = "idle"
    /\ ensureReady(c, wd, throws)
    /\ UNCHANGED <<killed, requestSeq, pendingRequests, pendingTurns,
                   bufferedTurnResults, threadId, threadCwd, currentTurnId,
                   disposed, available, uiVars, initWritten, settled, answered,
                   bufferedUses, execIds, seenServerIds, replyCount, lastReply>>

\* The process 'spawn' event resolves startProcess's first promise; its
\* continuation sends the initialize request (sendRequest + writeMessage).
spawnEvent_MarksReady ==
    /\ ~MicrotaskPending
    /\ process = "spawning"
    /\ process' = "running"
    /\ available' = TRUE
    /\ IF sp.pc = "awaitSpawn"
          THEN /\ requestSeq <= MaxSeq
               /\ requestSeq' = requestSeq + 1
               /\ sp' = [pc |-> "initWrite", req |-> requestSeq]
               /\ initWritten' = initWritten + 1
          ELSE UNCHANGED <<requestSeq, sp, initWritten>>
    /\ UNCHANGED <<killed, reader, pendingRequests, pendingTurns, bufferedTurnResults,
                   initializePromise, threadId, threadCwd, currentTurnId, disposed,
                   caller, uiVars, spawnCount, settled, answered,
                   bufferedUses, execIds, seenServerIds, replyCount, lastReply>>

spawnEvent ==
    /\ ~MicrotaskPending
    /\ process = "spawning"
    /\ process' = "running"
    /\ IF sp.pc = "awaitSpawn"
          THEN /\ requestSeq <= MaxSeq
               /\ requestSeq' = requestSeq + 1
               /\ sp' = [pc |-> "initWrite", req |-> requestSeq]
               /\ initWritten' = initWritten + 1
          ELSE UNCHANGED <<requestSeq, sp, initWritten>>
    /\ UNCHANGED <<killed, reader, pendingRequests, pendingTurns, bufferedTurnResults,
                   initializePromise, threadId, threadCwd, currentTurnId, disposed,
                   available, caller, uiVars, spawnCount, settled, answered,
                   bufferedUses, execIds, seenServerIds, replyCount, lastReply>>

\* The process 'error' event (the spawn failed).
errorEvent ==
    /\ ~MicrotaskPending
    /\ process = "spawning"
    /\ process' = "failed"
    /\ available' = FALSE
    /\ IF sp.pc = "awaitSpawn"
          THEN sp' = [sp EXCEPT !.pc = "failed"] /\ initializePromise' = "rejected"
          ELSE UNCHANGED <<sp, initializePromise>>
    /\ UNCHANGED <<killed, reader, requestSeq, pendingRequests, pendingTurns,
                   bufferedTurnResults, threadId, threadCwd, currentTurnId, disposed,
                   caller, uiVars, obsVars>>

\* The write callback of the initialize request: sendRequest registers the
\* PendingPromise (ok), or writeMessage rejects (~ok).
writeCallbackInit(ok) ==
    /\ ~MicrotaskPending
    /\ sp.pc = "initWrite"
    /\ ok \/ process /= "running"
    /\ IF ok
          THEN /\ pendingRequests' = pendingRequests \cup {sp.req}
               /\ sp' = [sp EXCEPT !.pc = "awaitInit"]
               /\ UNCHANGED initializePromise
          ELSE /\ sp' = [sp EXCEPT !.pc = "failed"]
               /\ initializePromise' = "rejected"
               /\ UNCHANGED pendingRequests
    /\ UNCHANGED <<process, killed, reader, requestSeq, pendingTurns,
                   bufferedTurnResults, threadId, threadCwd, currentTurnId, disposed,
                   available, caller, uiVars, obsVars>>

\* startProcess after `await this.sendRequest('initialize', ...)`.
startProcessReady ==
    /\ sp.pc = "gotInit"
    /\ sp' = [sp EXCEPT !.pc = "done"]
    /\ available' = TRUE
    /\ initializePromise' = "fulfilled"
    /\ UNCHANGED <<process, killed, reader, requestSeq, pendingRequests, pendingTurns,
                   bufferedTurnResults, threadId, threadCwd, currentTurnId, disposed,
                   caller, uiVars, obsVars>>

\* ------------------------------------------- CodexAgentService: sendMessage
\* sendRequest taking the id only when the request can be written.
sendRequest_ReusesFailedId(c, kind, cl) ==
    /\ requestSeq <= MaxSeq
    /\ requestSeq' = IF Writable THEN requestSeq + 1 ELSE requestSeq
    /\ caller' = [cl EXCEPT ![c] =
                    IF Writable
                        THEN [@ EXCEPT !.pc = kind, !.req = requestSeq]
                    ELSE IF kind = "intrWrite"
                        THEN [@ EXCEPT !.pc = "intrDone", !.res = "interrupt failed"]
                        ELSE [@ EXCEPT !.pc = "rejected", !.res = "stdin not writable"]]

\* sendRequest(method) called by caller c: takes the next id and writes the
\* request; kind is the position while the write is in flight.  A rejection
\* is thrown to the caller of sendMessage; interruptCurrentTurn catches it.
sendRequest(c, kind, cl) ==
    /\ requestSeq <= MaxSeq
    /\ requestSeq' = requestSeq + 1
    /\ caller' = [cl EXCEPT ![c] =
                    IF Writable
                        THEN [@ EXCEPT !.pc = kind, !.req = requestSeq]
                    ELSE IF kind = "intrWrite"
                        THEN [@ EXCEPT !.pc = "intrDone", !.res = "interrupt failed"]
                        ELSE [@ EXCEPT !.pc = "rejected", !.res = "stdin not writable"]]

\* sendMessage testing only `!this.threadId` before it reuses the thread.
ensureReadyResume_IgnoresCwd(c) ==
    /\ caller[c].pc = "awaitInit"
    /\ initializePromise \in {"fulfilled", "rejected"}
    /\ IF initializePromise = "fulfilled" /\ available
          THEN IF threadId = None
                  THEN sendRequest(c, "threadWrite", caller)
                  ELSE sendRequest(c, "turnWrite",
                                   [caller EXCEPT ![c].thread = threadId])
          ELSE /\ caller' = [caller EXCEPT ![c] = [@ EXCEPT !.pc = "rejected",
                                                     !.res = "unavailable"]]
               /\ UNCHANGED requestSeq
    /\ UNCHANGED <<process, killed, reader, pendingRequests, pendingTurns,
                   bufferedTurnResults, initializePromise, threadId, threadCwd,
                   currentTurnId, disposed, available, sp, uiVars, obsVars>>

\* ensureReady after `await this.initializePromise`, then sendMessage up to its
\* next await: thread/start if there is no thread for wd, else turn/start.
ensureReadyResume(c) ==
    /\ caller[c].pc = "awaitInit"
    /\ initializePromise \in {"fulfilled", "rejected"}
    /\ IF initializePromise = "fulfilled" /\ available
          THEN IF threadId = None \/ threadCwd /= caller[c].wd
                  THEN sendRequest(c, "threadWrite", caller)
                  ELSE sendRequest(c, "turnWrite",
                                   [caller EXCEPT ![c].thread = threadId])
          ELSE /\ caller' = [caller EXCEPT ![c] = [@ EXCEPT !.pc = "rejected",
                                                     !.res = "unavailable"]]
               /\ UNCHANGED requestSeq
    /\ UNCHANGED <<process, killed, reader, pendingRequests, pendingTurns,
                   bufferedTurnResults, initializePromise, threadId, threadCwd,
                   currentTurnId, disposed, available, sp, uiVars, obsVars>>

\* The write callback of a thread/start, turn/start or turn/interrupt request.
writeCallback(c, ok) ==
    /\ ~MicrotaskPending
    /\ caller[c].pc \in {"threadWrite", "turnWrite", "intrWrite"}
    /\ ok \/ process /= "running"
    /\ IF ok
          THEN /\ pendingRequests' = pendingRequests \cup {caller[c].req}
               /\ caller' = [caller EXCEPT ![c].pc =
                                IF @ = "threadWrite" THEN "awaitThread"
                                ELSE IF @ = "turnWrite" THEN "awaitTurn"
                                ELSE "awaitIntr"]
          ELSE /\ caller' = [caller EXCEPT ![c] =
                      IF @.pc = "intrWrite"
                          THEN [@ EXCEPT !.pc = "intrDone", !.res = "interrupt failed"]
                          ELSE [@ EXCEPT !.pc = "rejected", !.res = "write failed"]]
               /\ UNCHANGED pendingRequests
    /\ UNCHANGED <<process, killed, reader, requestSeq, pendingTurns,
                   bufferedTurnResults, initializePromise, threadId, threadCwd,
                   currentTurnId, disposed, available, sp, uiVars, obsVars>>

\* startThread after the thread/start response: it stores the thread and its
\* directory and returns; sendMessage goes on in a later microtask.
startThreadResume(c) ==
    /\ caller[c].pc = "gotThread"
    /\ IF caller[c].res = None
          THEN /\ caller' = [caller EXCEPT ![c] = [@ EXCEPT !.pc = "rejected",
                                                     !.res = "thread creation failed"]]
               /\ UNCHANGED <<threadId, threadCwd>>
          ELSE /\ threadId' = caller[c].res
               /\ threadCwd' = caller[c].wd
               /\ caller' = [caller EXCEPT ![c].pc = "threadStarted"]
    /\ UNCHANGED <<process, killed, reader, requestSeq, pendingRequests, pendingTurns,
                   bufferedTurnResults, initializePromise, currentTurnId, disposed,
                   available, sp, uiVars, obsVars>>

\* sendMessage after `await this.startThread(...)`: the turn/start request
\* names this.threadId as it is now.
sendMessageResume(c) ==
    /\ caller[c].pc = "threadStarted"
    /\ sendRequest(c, "turnWrite", [caller EXCEPT ![c].thread = threadId])
    /\ UNCHANGED <<process, killed, reader, pendingRequests, pendingTurns,
                   bufferedTurnResults, initializePromise, threadId, threadCwd,
                   currentTurnId, disposed, available, sp, uiVars, obsVars>>


\* sendMessage after the turn/start response: take the buffered result of the
\* turn if there is one, else register a waiter in pendingTurns.
turnStartResume_KeepsBuffered(c) ==
    LET turnId == caller[c].res IN
    /\ caller[c].pc = "gotTurn"
    /\ IF turnId = None
          THEN /\ caller' = [caller EXCEPT ![c] = [@ EXCEPT !.pc = "rejected",
                                                     !.res = "turn without id"]]
               /\ UNCHANGED <<currentTurnId, bufferedTurnResults, pendingTurns,
                              bufferedUses>>
          ELSE /\ currentTurnId' = turnId
               /\ IF bufferedTurnResults[turnId] /= None
                     THEN /\ UNCHANGED bufferedTurnResults
                          /\ bufferedUses' = [bufferedUses EXCEPT ![turnId] = @ + 1]
                          /\ caller' = [caller EXCEPT ![c] =
                                 [@ EXCEPT !.pc = "resolved",
                                           !.res = bufferedTurnResults[turnId]]]
                          /\ UNCHANGED pendingTurns
                     ELSE /\ pendingTurns' = [pendingTurns EXCEPT ![turnId] = c]
                          /\ caller' = [caller EXCEPT ![c].pc = "waitTurn"]
                          /\ UNCHANGED <<bufferedTurnResults, bufferedUses>>
    /\ UNCHANGED <<process, killed, reader, requestSeq, pendingRequests,
                   initializePromise, threadId, threadCwd, disposed, available, sp,
                   uiVars, spawnCount, initWritten, settled, answered, execIds,
                   seenServerIds, replyCount, lastReply>>

turnStartResume(c) ==
    LET turnId == caller[c].res IN
    /\ caller[c].pc = "gotTurn"
    /\ IF turnId = None
          THEN /\ caller' = [caller EXCEPT ![c] = [@ EXCEPT !.pc = "rejected",
                                                     !.res = "turn without id"]]
               /\ UNCHANGED <<currentTurnId, bufferedTurnResults, pendingTurns,
                              bufferedUses>>
          ELSE /\ currentTurnId' = turnId
               /\ IF bufferedTurnResults[turnId] /= None
                     THEN /\ bufferedTurnResults' =
                                 [bufferedTurnResults EXCEPT ![turnId] = None]
                          /\ bufferedUses' = [bufferedUses EXCEPT ![turnId] = @ + 1]
                          /\ caller' = [caller EXCEPT ![c] =
                                 [@ EXCEPT !.pc = "resolved",
                                           !.res = bufferedTurnResults[turnId]]]
                          /\ UNCHANGED pendingTurns
                     ELSE /\ pendingTurns' = [pendingTurns EXCEPT ![turnId] = c]
                          /\ caller' = [caller EXCEPT ![c].pc = "waitTurn"]
                          /\ UNCHANGED <<bufferedTurnResults, bufferedUses>>
    /\ UNCHANGED <<process, killed, reader, requestSeq, pendingRequests,
                   initializePromise, threadId, threadCwd, disposed, available, sp,
                   uiVars, spawnCount, initWritten, settled, answered, execIds,
                   seenServerIds, replyCount, lastReply>>

\* ------------------------------------------- CodexAgentService: approvals
\* The decision respondToExecApproval puts on the wire for `decision`.
DecisionWritten(decision) ==
    IF decision = "approved_for_session" THEN "approved_for_session"
    ELSE IF decision = "denied" THEN "denied"
    ELSE IF decision = "abort" THEN "abort"
    ELSE "approved"

\* respondToExecApproval(requestId, decision): writes {id, result: {decision}}
\* when stdin is writable (writeMessage rejects otherwise).
respondToExecApproval(requestId, decision) ==
    IF Writable
        THEN /\ replyCount[requestId] < MaxReplies
             /\ replyCount' = [replyCount EXCEPT ![requestId] = @ + 1]
             /\ lastReply' = [id |-> requestId, supplied |-> decision,
                              written |-> DecisionWritten(decision)]
        ELSE UNCHANGED <<replyCount, lastReply>>

\* handleServerRequest: an execCommandApproval is emitted as 'execApproval'
\* (AIChatViewProvider.handleCodexExecApproval records it as pending); every
\* other method is answered "approved" at once.
handleServerRequest(m) ==
    /\ IF m.method = "execCommandApproval"
          THEN /\ codexPendingApprovalId' = m.id
               /\ execIds' = execIds \cup {m.id}
               /\ UNCHANGED <<replyCount, lastReply>>
          ELSE /\ respondToExecApproval(m.id, "approved")
               /\ UNCHANGED <<codexPendingApprovalId, execIds>>
    /\ UNCHANGED <<svcVars, approvalFinally, spawnCount, initWritten, settled,
                   bufferedUses>>

\* ------------------------------------------- CodexAgentService: inbound
\* handleResponse: settle and remove the PendingPromise of message.id.
handleResponse_KeepsPending(m) ==
    /\ IF m.id \notin pendingRequests
          THEN UNCHANGED <<pendingRequests, settled, sp, caller>>
          ELSE /\ UNCHANGED pendingRequests
               /\ settled' = Bump(settled, {m.id})
               /\ sp' = IF InitOwned({m.id}) THEN [sp EXCEPT !.pc = "gotInit"] ELSE sp
               /\ caller' = ResolveCaller(caller, m.id, m.result)
    /\ UNCHANGED <<process, killed, reader, requestSeq, pendingTurns,
                   bufferedTurnResults, initializePromise, threadId, threadCwd,
                   currentTurnId, disposed, available, uiVars, spawnCount,
                   initWritten, bufferedUses, execIds, replyCount, lastReply>>

handleResponse(m) ==
    /\ IF m.id \notin pendingRequests
          THEN UNCHANGED <<pendingRequests, settled, sp, caller>>
          ELSE /\ pendingRequests' = pendingRequests \ {m.id}
               /\ settled' = Bump(settled, {m.id})
               /\ sp' = IF InitOwned({m.id}) THEN [sp EXCEPT !.pc = "gotInit"] ELSE sp
               /\ caller' = ResolveCaller(caller, m.id, m.result)
    /\ UNCHANGED <<process, killed, reader, requestSeq, pendingTurns,
                   bufferedTurnResults, initializePromise, threadId, threadCwd,
                   currentTurnId, disposed, available, uiVars, spawnCount,
                   initWritten, bufferedUses, execIds, replyCount, lastReply>>

\* handleLine's last branch: an {id, error} line rejects the PendingPromise.
rejectPending(m) ==
    /\ IF m.id \notin pendingRequests
          THEN UNCHANGED <<pendingRequests, settled, sp, caller, initializePromise>>
          ELSE /\ pendingRequests' = pendingRequests \ {m.id}
               /\ settled' = Bump(settled, {m.id})
               /\ sp' = IF InitOwned({m.id}) THEN [sp EXCEPT !.pc = "failed"] ELSE sp
               /\ initializePromise' =
                      IF InitOwned({m.id}) THEN "rejected" ELSE initializePromise
               /\ caller' = RejectCallers(caller, {m.id})
    /\ UNCHANGED <<process, killed, reader, requestSeq, pendingTurns,
                   bufferedTurnResults, threadId, threadCwd,
                   currentTurnId, disposed, available, uiVars, spawnCount,
                   initWritten, bufferedUses, execIds, replyCount, lastReply>>

\* processTurnCompleted: resolve the waiter of the turn, or buffer the result.
processTurnCompleted(m) ==
    /\ IF m.turn = None
          THEN UNCHANGED <<pendingTurns, bufferedTurnResults, bufferedUses, caller>>
          ELSE IF pendingTurns[m.turn] /= 0
              THEN /\ pendingTurns' = [pendingTurns EXCEPT ![m.turn] = 0]
                   /\ caller' = [c \in Callers |->
                         IF c = pendingTurns[m.turn] /\ caller[c].pc = "waitTurn"
                            /\ caller[c].res = m.turn
                             THEN [caller[c] EXCEPT !.pc = "resolved", !.res = m.text]
                             ELSE caller[c]]
                   /\ UNCHANGED <<bufferedTurnResults, bufferedUses>>
              ELSE /\ bufferedTurnResults' =
                          [bufferedTurnResults EXCEPT ![m.turn] = m.text]
                   /\ bufferedUses' = [bufferedUses EXCEPT ![m.turn] = 0]
                   /\ UNCHANGED <<pendingTurns, caller>>
    /\ UNCHANGED currentTurnId

handleNotification(m) ==
    /\ IF m.method = "turn/completed"
          THEN processTurnCompleted(m)
          ELSE /\ currentTurnId' = IF m.method = "turn/started"
                                      THEN m.turn ELSE currentTurnId
               /\ UNCHANGED <<pendingTurns, bufferedTurnResults, bufferedUses, caller>>
    /\ UNCHANGED <<process, killed, reader, requestSeq, pendingRequests,
                   initializePromise, threadId, threadCwd, disposed, available, sp,
                   uiVars, spawnCount, initWritten, settled, execIds, replyCount,
                   lastReply>>

\* A line is an answer on the wire: it has an id, no method, and a result or
\* error member.
ResponseShaped(m) == m.method = None /\ HasId(m) /\ (m.result /= None \/ m.error)
\* A line is a server request on the wire: it has a method and an id.
RequestShaped(m) == m.method /= None /\ HasId(m)

\* The line answers a registered turn/start request and names a turn.
AnswersTurnStart(m) ==
    /\ ResponseShaped(m) /\ m.result \in TurnIds
    /\ m.id \in pendingRequests
    /\ \E c \in Callers : caller[c].req = m.id /\ caller[c].pc = "awaitTurn"

\* handleLine(line) for a line that parses to the object m.
handleLine(m) ==
    /\ reader = "open"
    /\ process \in {"running", "exited"}
    /\ answered' = IF ResponseShaped(m) /\ m.id \in pendingRequests
                      THEN answered \cup {m.id} ELSE answered
    /\ seenServerIds' = IF RequestShaped(m)
                           THEN seenServerIds \cup {m.id} ELSE seenServerIds
    /\ openTurns' = IF AnswersTurnStart(m) THEN openTurns \cup {m.result}
                    ELSE IF m.method = "turn/completed" /\ ~HasId(m)
                        THEN openTurns \ {m.turn}
                    ELSE openTurns
    /\ CASE Route(m) = "handleServerRequest" -> handleServerRequest(m)
         [] Route(m) = "handleNotification" -> handleNotification(m)
         [] Route(m) = "handleResponse" -> handleResponse(m)
         [] Route(m) = "rejectPending" -> rejectPending(m)
         [] OTHER -> UNCHANGED <<svcVars, uiVars, spawnCount, initWritten, settled,
                                 bufferedUses, execIds, replyCount, lastReply>>


\* handleLine(line) for a line that is not a JSON text: blank lines are
\* skipped, a line JSON.parse rejects is reported by an 'error' event.
RawLines == {"blank", "not JSON"}

handleRawLine_ClosesReader(raw) ==
    /\ reader = "open"
    /\ process \in {"running", "exited"}
    /\ IF raw = "blank"
          THEN UNCHANGED <<parseErrors, reader>>
          ELSE /\ parseErrors < MaxParseErrors
               /\ parseErrors' = parseErrors + 1
               /\ reader' = "closed"
    /\ UNCHANGED <<process, killed, requestSeq, pendingRequests, pendingTurns,
                   bufferedTurnResults, initializePromise, threadId, threadCwd,
                   currentTurnId, disposed, available, sp, caller,
                   uiVars, obsVars, agentVars, dispatchVars, trajVars, facadeVars, traeVars,
                   mcpVars, msgVars>>

handleRawLine(raw) ==
    /\ reader = "open"
    /\ process \in {"running", "exited"}
    /\ IF raw = "blank"
          THEN UNCHANGED parseErrors
          ELSE /\ parseErrors < MaxParseErrors
               /\ parseErrors' = parseErrors + 1
    /\ UNCHANGED <<svcVars, uiVars, obsVars, agentVars, dispatchVars, trajVars, facadeVars,
                   traeVars, mcpVars, msgVars>>

\* The process 'exit' event.
exitEvent ==
    /\ ~MicrotaskPending
    /\ process = "running"
    /\ process' = "exited"
    /\ available' = FALSE
    /\ UNCHANGED <<killed, reader, requestSeq, pendingRequests, pendingTurns,
                   bufferedTurnResults, initializePromise, threadId, threadCwd,
                   currentTurnId, disposed, sp, caller, uiVars, obsVars>>

\* stdout of the exited process reaches its end: no line follows.
stdoutEnd ==
    /\ ~MicrotaskPending
    /\ process = "exited"
    /\ reader = "open"
    /\ reader' = "closed"
    /\ UNCHANGED <<process, killed, requestSeq, pendingRequests, pendingTurns,
                   bufferedTurnResults, initializePromise, threadId, threadCwd,
                   currentTurnId, disposed, available, sp, caller, uiVars, obsVars>>

\* dispose(): reject and clear pendingRequests and pendingTurns, close the
\* reader, kill the process.
dispose ==
    /\ ~MicrotaskPending
    /\ disposed' = TRUE
    /\ settled' = Bump(settled, pendingRequests)
    /\ pendingRequests' = {}
    /\ sp' = IF InitOwned(pendingRequests) THEN [sp EXCEPT !.pc = "failed"] ELSE sp
    /\ initializePromise' =
           IF InitOwned(pendingRequests) THEN "rejected" ELSE initializePromise
    /\ pendingTurns' = [t \in TurnIds |-> 0]
    /\ caller' = [c \in Callers |->
           IF caller[c].pc = "waitTurn" /\ pendingTurns[caller[c].res] = c
               THEN [caller[c] EXCEPT !.pc = "rejected", !.res = "disposed"]
           ELSE IF caller[c].req \in pendingRequests
                   /\ caller[c].pc \in {"awaitThread", "awaitTurn"}
               THEN [caller[c] EXCEPT !.pc = "rejected", !.res = "disposed"]
           ELSE IF caller[c].req \in pendingRequests /\ caller[c].pc = "awaitIntr"
               THEN [caller[c] EXCEPT !.pc = "intrDone", !.res = "interrupt failed"]
           ELSE caller[c]]
    /\ reader' = IF reader = "open" THEN "closed" ELSE reader
    /\ killed' = IF process \in {"spawning", "running"} THEN TRUE ELSE killed
    /\ UNCHANGED <<process, requestSeq, bufferedTurnResults, threadId, threadCwd,
                   currentTurnId, available, uiVars, spawnCount, initWritten,
                   answered, bufferedUses, execIds, seenServerIds, replyCount,
                   lastReply>>

\* ------------------------------------------- CodexAgentService: turn control
\* resetThread(): forget the thread.
resetThread ==
    /\ ~MicrotaskPending
    /\ threadId' = None
    /\ threadCwd' = None
    /\ UNCHANGED <<process, killed, reader, requestSeq, pendingRequests, pendingTurns,
                   bufferedTurnResults, initializePromise, currentTurnId, disposed,
                   available, sp, caller, uiVars, obsVars>>

\* interruptCurrentTurn() as call c, up to the await of its turn/interrupt
\* request: returns at once without a thread or a current turn id.  The
\* request names this.threadId and this.currentTurnId.
interruptCurrentTurn(c) ==
    /\ ~MicrotaskPending
    /\ caller[c].pc = "idle"
    /\ IF threadId = None \/ currentTurnId = None
          THEN /\ caller' = [caller EXCEPT ![c] = [@ EXCEPT !.pc = "intrDone",
                                                     !.res = "nothing to interrupt"]]
               /\ UNCHANGED requestSeq
          ELSE sendRequest(c, "intrWrite",
                           [caller EXCEPT ![c] = [@ EXCEPT !.thread = threadId,
                                                           !.res = currentTurnId]])
    /\ UNCHANGED <<process, killed, reader, pendingRequests, pendingTurns,
                   bufferedTurnResults, initializePromise, threadId, threadCwd,
                   currentTurnId, disposed, available, sp, uiVars, obsVars>>

\* ------------------------------------------- AIChatViewProvider: approvals
\* String(data.decision) of a `codexApprovalResult` webview message:
\* "undefined" when the member is absent, "other" any string outside the set.
UiDecisions == {"approved", "approved_for_session", "denied", "abort",
                "undefined", "other"}

\* handleCodexApprovalDecision(decision, requestId) up to the await of the
\* write; requestId = NoId: the message carries no requestId.
handleCodexApprovalDecision(decision, requestId) ==
    LET approvalId == IF requestId /= NoId THEN requestId
                      ELSE codexPendingApprovalId IN
    /\ ~MicrotaskPending
    /\ ~disposed
    /\ IF approvalId = NoId
          THEN UNCHANGED <<replyCount, lastReply, approvalFinally>>
          ELSE /\ approvalFinally < MaxPendingFinally
               /\ respondToExecApproval(approvalId, decision)
               /\ approvalFinally' = approvalFinally + 1
    /\ UNCHANGED <<svcVars, codexPendingApprovalId, spawnCount, initWritten, settled,
                   answered, bufferedUses, execIds, seenServerIds>>

\* The `finally` of handleCodexApprovalDecision, once the write has settled.
approvalDecisionFinally ==
    /\ ~MicrotaskPending
    /\ approvalFinally > 0
    /\ approvalFinally' = approvalFinally - 1
    /\ codexPendingApprovalId' = NoId
    /\ UNCHANGED <<svcVars, obsVars>>

\* The webview's `toolCallsCompleted` message.
toolCallsCompleted ==
    /\ ~MicrotaskPending
    /\ codexPendingApprovalId /= NoId
    /\ codexPendingApprovalId' = NoId
    /\ UNCHANGED <<svcVars, approvalFinally, obsVars>>

\* ------------------------------------------- AIChatViewProvider: backend
Backends == {"codex", "trae"}
BinaryPaths == {None, "p1", "p2"}

\* initializeAgentBackend(forceRestart) as call r, up to its first await that
\* yields to other events.  `await this.codexAgent.dispose()` settles at once
\* (dispose() has no await inside), so the assignment after it runs before any
\* other event.  `preferred` is this.preferredAgentBackend at the call.
initializeAgentBackend(r, forceRestart, preferred) ==
    /\ IF forceRestart /\ codexAgent /= 0
          THEN /\ services' = [services EXCEPT ![codexAgent] = "disposed"]
               /\ codexAgent' = 0
          ELSE UNCHANGED <<services, codexAgent>>
    /\ IF preferred = "codex"
          THEN /\ run' = [run EXCEPT ![r] = [pc |-> "awaitDetect", force |-> forceRestart]]
               /\ agentBackend' = preferred
          ELSE /\ run' = [run EXCEPT ![r] = [pc |-> "done", force |-> forceRestart]]
               /\ agentBackend' = "trae"

\* The onDidChangeConfiguration listener: reloadConfiguration() and
\* updatePreferencesFromConfiguration(config, false) with the new settings.
updatePreferencesFromConfiguration(newBackend, newCodexPath) ==
    LET backendChanged == newBackend /= preferredAgentBackend
        codexPathChanged == newCodexPath /= codexBinaryPath
        free == {r \in Runs : run[r].pc = "none"}
    IN
    /\ preferredAgentBackend' = newBackend
    /\ codexBinaryPath' = newCodexPath
    /\ IF codexPathChanged \/ backendChanged
          THEN /\ free /= {}
               /\ initializeAgentBackend(CHOOSE r \in free : \A q \in free : r <= q,
                                         TRUE, newBackend)
          ELSE /\ agentBackend' = newBackend
               /\ UNCHANGED <<services, codexAgent, run>>

\* initializeAgentBackend after `await CodexAgentService.detectAvailability`:
\* with codex available a new CodexAgentService is created and assigned
\* (ensureReady() then spawns its process); else the backend is trae.
detectAvailabilityDone(r, codexAvailable) ==
    LET fresh == {i \in Runs : services[i] = "none"}
        new == CHOOSE i \in fresh : \A j \in fresh : i <= j
    IN
    /\ run[r].pc = "awaitDetect"
    /\ run' = [run EXCEPT ![r].pc = "done"]
    /\ IF codexAvailable
          THEN /\ codexAgent' = new
               /\ services' = [services EXCEPT ![new] = "live"]
               /\ agentBackend' = "codex"
          ELSE /\ agentBackend' = "trae"
               /\ UNCHANGED <<codexAgent, services>>
    /\ UNCHANGED <<preferredAgentBackend, codexBinaryPath>>

\* ------------------------------------------- handleLine's dispatch alone
\* Every shape of a parsed line: each member present or absent, the id also 0.
DispatchLines ==
    {Msg(me, id, p, None, None, r, e) :
        me \in {None, "execCommandApproval", "applyPatchApproval", "unknownRequest",
                "turn/completed"},
        id \in {NoId, 0, 1, 2}, p \in BOOLEAN,
        r \in {None, "null", "emptyString", "zero", "false", "object"},
        e \in BOOLEAN}

\* handleLine chooses the handler of the line.
dispatchLine ==
    /\ route = "unset"
    /\ route' = Route(line)
    /\ UNCHANGED line

\* The reader delivers the next line.
nextLine ==
    /\ route /= "unset"
    /\ line' \in DispatchLines
    /\ route' = "unset"

\* ------------------------------------------------------- specifications
\* The agent answers ids the client has issued (or 0), uses each of its own
\* request ids once, and reports turn/started and turn/completed of the turns
\* it has started.
AgentSends(m) ==
    /\ m.id < requestSeq
    /\ RequestShaped(m) => m.id \notin seenServerIds
    /\ (m.method \in {"turn/completed", "turn/started"} /\ m.turn /= None)
          => m.turn \in openTurns

NotAgent == UNCHANGED <<agentVars, rawVars, dispatchVars, trajVars, facadeVars, traeVars,
                        mcpVars, msgVars>>
NotFacade == UNCHANGED <<rawVars, dispatchVars, trajVars, facadeVars, traeVars, mcpVars, msgVars>>
NotService == UNCHANGED <<svcVars, uiVars, obsVars, agentVars, rawVars, traeVars,
                          mcpVars, msgVars>>

\* One CodexAgentService and its agent: startup, sendMessage calls, responses
\* and notifications, exit and dispose.
Next ==
    \/ \E c \in Callers, wd \in Cwds, throws \in BOOLEAN :
          sendMessage(c, wd, throws) /\ NotAgent
    \/ spawnEvent /\ NotAgent
    \/ errorEvent /\ NotAgent
    \/ \E ok \in BOOLEAN : writeCallbackInit(ok) /\ NotAgent
    \/ startProcessReady /\ NotAgent
    \/ \E c \in Callers : ensureReadyResume(c) /\ NotAgent
    \/ \E c \in Callers, ok \in BOOLEAN : writeCallback(c, ok) /\ NotAgent
    \/ \E c \in Callers : startThreadResume(c) /\ NotAgent
    \/ \E c \in Callers : sendMessageResume(c) /\ NotAgent
    \/ \E c \in Callers : turnStartResume(c) /\ NotAgent
    \/ \E m \in ResponseLines \cup NotificationLines :
          AgentSends(m) /\ handleLine(m) /\ NotFacade
    \/ exitEvent /\ NotAgent
    \/ stdoutEnd /\ NotAgent
    \/ dispose /\ NotAgent

Spec == Init /\ [][Next]_vars

\* The approval handshake: the service starts, the agent sends its requests
\* and answers the initialize request, the webview sends decisions (with the
\* requestId of an approval it was shown, or with none).
ApprovalLines == ServerRequestLines \cup {m \in ResponseLines : m.id = 1}

NextApproval ==
    \/ sendMessage(1, "dirA", FALSE) /\ NotAgent
    \/ spawnEvent /\ NotAgent
    \/ \E ok \in BOOLEAN : writeCallbackInit(ok) /\ NotAgent
    \/ startProcessReady /\ NotAgent
    \/ ensureReadyResume(1) /\ NotAgent
    \/ \E m \in ApprovalLines : AgentSends(m) /\ handleLine(m) /\ NotFacade
    \/ exitEvent /\ NotAgent
    \/ dispose /\ NotAgent
    \/ \E d \in UiDecisions, rid \in (execIds \cup {NoId}) :
          handleCodexApprovalDecision(d, rid) /\ NotAgent
    \/ approvalDecisionFinally /\ NotAgent
    \/ toolCallsCompleted /\ NotAgent

SpecApproval == Init /\ [][NextApproval]_vars

\* handleLine's dispatch over every shape of line.
InitDispatch ==
    /\ InitService /\ InitFacade /\ InitTrae
    /\ line \in DispatchLines /\ route = "unset"
    /\ trajectory = EmptyTrace /\ trajResult = NotParsed

NextDispatch ==
    \/ dispatchLine /\ NotService /\ UNCHANGED <<facadeVars, trajVars>>
    \/ nextLine /\ NotService /\ UNCHANGED <<facadeVars, trajVars>>

SpecDispatch == InitDispatch /\ [][NextDispatch]_vars

\* AIChatViewProvider re-initializing its backend on configuration changes.
NextFacade ==
    \/ \E nb \in Backends, np \in BinaryPaths :
          updatePreferencesFromConfiguration(nb, np) /\ NotService
                                                     /\ UNCHANGED <<dispatchVars, trajVars>>
    \/ \E r \in Runs, ok \in BOOLEAN :
          detectAvailabilityDone(r, ok) /\ NotService /\ UNCHANGED <<dispatchVars, trajVars>>

SpecFacade == Init /\ [][NextFacade]_vars

\* Turn control: one sendMessage call, one interruptCurrentTurn call (the
\* provider's stop button) and resetThread, on a service and its agent, whose
\* output also holds blank lines and lines that are not JSON.
NextTurn ==
    \/ \E wd \in Cwds : sendMessage(1, wd, FALSE) /\ NotAgent
    \/ interruptCurrentTurn(2) /\ NotAgent
    \/ resetThread /\ NotAgent
    \/ spawnEvent /\ NotAgent
    \/ \E ok \in BOOLEAN : writeCallbackInit(ok) /\ NotAgent
    \/ startProcessReady /\ NotAgent
    \/ ensureReadyResume(1) /\ NotAgent
    \/ \E c \in Callers, ok \in BOOLEAN : writeCallback(c, ok) /\ NotAgent
    \/ startThreadResume(1) /\ NotAgent
    \/ sendMessageResume(1) /\ NotAgent
    \/ turnStartResume(1) /\ NotAgent
    \/ \E m \in ResponseLines \cup NotificationLines :
          AgentSends(m) /\ handleLine(m) /\ NotFacade
    \/ \E raw \in RawLines : handleRawLine(raw)
    \/ exitEvent /\ NotAgent
    \/ stdoutEnd /\ NotAgent
    \/ dispose /\ NotAgent

SpecTurn == Init /\ [][NextTurn]_vars

\* The same service under the scheduling Node.js guarantees: a continuation
\* whose promise has settled runs, a write callback is called, a spawning
\* process emits 'spawn' or 'error', and the stdout of an exited process
\* ends.  Nothing obliges the agent to answer, the process to exit, or anyone
\* to call sendMessage or dispose.
Continuations ==
    \/ startProcessReady /\ NotAgent
    \/ \E c \in Callers : ensureReadyResume(c) /\ NotAgent
    \/ \E c \in Callers : startThreadResume(c) /\ NotAgent
    \/ \E c \in Callers : sendMessageResume(c) /\ NotAgent
    \/ \E c \in Callers : turnStartResume(c) /\ NotAgent
WriteCallbacks ==
    \/ \E ok \in BOOLEAN : writeCallbackInit(ok) /\ NotAgent
    \/ \E c \in Callers, ok \in BOOLEAN : writeCallback(c, ok) /\ NotAgent
SpawnOutcome ==
    \/ spawnEvent /\ NotAgent
    \/ errorEvent /\ NotAgent
StdoutEnds == stdoutEnd /\ NotAgent

SpecLive ==
    /\ Init /\ [][Next]_vars
    /\ WF_vars(Continuations)
    /\ WF_vars(WriteCallbacks)
    /\ WF_vars(SpawnOutcome)
    /\ WF_vars(StdoutEnds)

\* ==================================================== TraeAgentService
\* Text is a sequence of characters of a small alphabet: "a" a letter that
\* is no final byte of an escape sequence, "m" a letter that is one, "[" and
\* "]", "esc" (U+001B), "box" (a box-drawing character), "cr" and "lf".
Letters == {"a", "m"}
FinalBytes == {"m"}
Whitespace == {"cr", "lf"}

RunLen(s, i, S) ==
    CHOOSE n \in 0..(Len(s) + 1 - i) :
        /\ \A k \in 0..(n - 1) : s[i + k] \in S
        /\ (i + n > Len(s) \/ s[i + n] \notin S)

\* text.replace(ansiRegex, ''): ESC, any run of "[", then a final byte.
RECURSIVE StripAnsi(_)
StripAnsi(s) ==
    IF s = <<>> THEN <<>>
    ELSE LET n == RunLen(s, 2, {"["}) IN
         IF s[1] = "esc" /\ 2 + n <= Len(s) /\ s[2 + n] \in FinalBytes
            THEN StripAnsi(SubSeq(s, 3 + n, Len(s)))
            ELSE <<s[1]>> \o StripAnsi(Tail(s))

\* The rich-markup tags: "[", a letter, word characters, "]".
RECURSIVE StripRich(_)
StripRich(s) ==
    IF s = <<>> THEN <<>>
    ELSE LET n == RunLen(s, 2, Letters) IN
         IF s[1] = "[" /\ n >= 1 /\ 2 + n <= Len(s) /\ s[2 + n] = "]"
            THEN StripRich(SubSeq(s, 3 + n, Len(s)))
            ELSE <<s[1]>> \o StripRich(Tail(s))

StripBox(s) == SelectSeq(s, LAMBDA t : t /= "box")

\* replace(/\r?\n/g, '\n')
RECURSIVE NormalizeNewlines(_)
NormalizeNewlines(s) ==
    IF s = <<>> THEN <<>>
    ELSE IF Len(s) >= 2 /\ s[1] = "cr" /\ s[2] = "lf"
            THEN <<"lf">> \o NormalizeNewlines(SubSeq(s, 3, Len(s)))
            ELSE <<s[1]>> \o NormalizeNewlines(Tail(s))

sanitizeOutput(text) == NormalizeNewlines(StripBox(StripRich(StripAnsi(text))))

\* String.prototype.trim
RECURSIVE TrimStart(_)
TrimStart(s) ==
    IF s /= <<>> /\ s[1] \in Whitespace THEN TrimStart(Tail(s)) ELSE s
RECURSIVE TrimEnd(_)
TrimEnd(s) ==
    IF s /= <<>> /\ s[Len(s)] \in Whitespace
       THEN TrimEnd(SubSeq(s, 1, Len(s) - 1)) ELSE s
Trim(s) == TrimEnd(TrimStart(s))

\* ToolText: a stretch of output that /Tool: (\w+)\s*\(([^)]+)\)/ matches.
ToolText == "Tool: x(y)"
StdoutChunks == {<<"esc", "[", "m", "a", ToolText, "cr", "lf">>, <<"[", "box", "m", "]">>}
StderrChunks == {<<"a", "lf">>}
\* The trajectory file when the child has closed: missing, unreadable, not
\* JSON, JSON that is no trace object (null, a number, an array, {}), or a
\* trace with its `success` (true, false or absent) and with or without a
\* `final_result`.
TraceFiles ==
    [kind : {"missing", "unreadable", "invalid JSON", "not a trace"},
     success : {"undefined"}, has_final : {FALSE}] \cup
    [kind : {"trace"}, success : {"true", "false", "undefined"}, has_final : BOOLEAN]

NoTrace ==
    [parsed |-> FALSE, success |-> "undefined", has_final |-> FALSE,
     final_result |-> <<>>, toolCalls |-> <<>>]

\* parsed = FALSE: the function returns null.
parseTrajectoryFile(file) ==
    CASE file.kind \in {"missing", "unreadable", "invalid JSON"} -> NoTrace
      [] file.kind = "not a trace" ->
            [parsed |-> TRUE, success |-> "undefined", has_final |-> FALSE,
             final_result |-> <<>>, toolCalls |-> <<>>]
      [] file.kind = "trace" ->
            [parsed |-> TRUE, success |-> file.success, has_final |-> file.has_final,
             final_result |-> IF file.has_final THEN <<"a">> ELSE <<>>,
             toolCalls |-> <<"trace call">>]

parseToolCalls(output) ==
    LET hits == SelectSeq(output, LAMBDA t : t = ToolText)
    IN  [i \in 1..Len(hits) |-> "x"]

\* ---- parseTrajectoryFile: the toolCalls array (the file holds a JSON object)
\* A call_id: absent, the number 0, the number 1 or the string "1".
CallIds == {"undefined", "0", "1", "'1'"}
Undefined == "undefined"
\* String(cid)
StringOf(cid) == IF cid = "0" THEN "0" ELSE "1"
\* cid as a condition: undefined and the number 0 are falsy.
TruthyCallId(cid) == cid \notin {Undefined, "0"}

ToolResultEntries == [call_id : CallIds, result : {"r1", "r2"}]
ToolCallEntries == [call_id : CallIds, name : {"tool"}]
UpTo(S, n) == UNION {[1..k -> S] : k \in 0..n}
\* An array that is absent or no array is skipped like an empty one.
TraceSteps ==
    [tool_results : UpTo(ToolResultEntries, MaxEntries),
     tool_calls : UpTo(ToolCallEntries, MaxEntries)]
TraceData ==
    [tool_results : UpTo(ToolResultEntries, MaxEntries),
     tool_calls : UpTo(ToolCallEntries, MaxEntries),
     agent_steps : UpTo(TraceSteps, MaxSteps)]

\* resultsById: String(call_id) -> result (Undefined: get() finds nothing)
NoResults == [k \in {"0", "1"} |-> Undefined]

RECURSIVE collectResults(_, _)
collectResults(resultsById, arr) ==
    IF arr = <<>> THEN resultsById
    ELSE LET tr == Head(arr)
             cid == tr.call_id
         IN  collectResults(IF cid /= Undefined
                               THEN [resultsById EXCEPT ![StringOf(cid)] = tr.result]
                               ELSE resultsById,
                            Tail(arr))

RECURSIVE collectStepResults(_, _)
collectStepResults(resultsById, steps) ==
    IF steps = <<>> THEN resultsById
    ELSE collectStepResults(collectResults(resultsById, Head(steps).tool_results),
                            Tail(steps))

collectCalls(resultsById, arr) ==
    [i \in 1..Len(arr) |->
        LET tc == arr[i]
            cid == IF TruthyCallId(tc.call_id) THEN StringOf(tc.call_id) ELSE Undefined
        IN  [name |-> tc.name,
             result |-> IF cid /= Undefined THEN resultsById[cid] ELSE Undefined]]

RECURSIVE collectStepCalls(_, _)
collectStepCalls(resultsById, steps) ==
    IF steps = <<>> THEN <<>>
    ELSE collectCalls(resultsById, Head(steps).tool_calls)
             \o collectStepCalls(resultsById, Tail(steps))

\* The toolCalls parseTrajectoryFile returns for the parsed object data.
trajectoryToolCalls(data) ==
    LET resultsById == collectStepResults(collectResults(NoResults, data.tool_results),
                                          data.agent_steps)
    IN  collectCalls(resultsById, data.tool_calls)
            \o collectStepCalls(resultsById, data.agent_steps)

\* parseTrajectoryFile(trajectoryPath) on a file that holds `trajectory`.
parseTrajectory ==
    /\ ~trajResult.parsed
    /\ trajResult' = [parsed |-> TRUE, toolCalls |-> trajectoryToolCalls(trajectory)]
    /\ UNCHANGED trajectory

InitTrajectory ==
    /\ InitService /\ InitFacade /\ InitTrae
    /\ line = EmptyLine /\ route = "unset"
    /\ trajectory \in TraceData /\ trajResult = NotParsed

NextTrajectory ==
    parseTrajectory /\ NotService /\ UNCHANGED <<facadeVars, dispatchVars>>

SpecTrajectory == InitTrajectory /\ [][NextTrajectory]_vars

TimedOut == <<"Trae-agent execution timed out">>
MaxDurationReached == <<"Trae-agent execution reached max total duration">>

\* this.currentProcess.kill('SIGTERM') on the handle h
Kill(cl, h) == [cl EXCEPT ![h].sig = TRUE]

\* A child that could not be started emits 'error' on the next tick, before
\* any timer, stream event or other call.
ErrorTickPending == \E e \in Execs : cli[e].child = "failed"

\* executeAgent from `return new Promise(...)` on: spawn the child, store its
\* handle, start both timers, attach the listeners.  spawned = FALSE: the
\* command cannot be started and the child will emit 'error'.
executeAgent(e, spawned) ==
    /\ ~ErrorTickPending
    /\ cli[e].st = "idle"
    /\ currentProcess' = e
    /\ cli' = [cli EXCEPT ![e] =
                  [NoExecution EXCEPT !.st = "pending",
                                      !.child = IF spawned THEN "alive" ELSE "failed",
                                      !.inact = "armed", !.overall = "armed"]]

onTimeout(e) ==
    /\ ~ErrorTickPending
    /\ cli[e].inact = "armed"
    /\ IF cli[e].st = "pending" /\ currentProcess /= 0
          THEN cli' = [Kill(cli, currentProcess) EXCEPT
                          ![e].inact = "fired", ![e].st = "resolved",
                          ![e].res = [success |-> FALSE,
                                      content |-> sanitizeOutput(cli[e].output),
                                      error |-> TimedOut]]
          ELSE cli' = [cli EXCEPT ![e].inact = "fired"]
    /\ UNCHANGED currentProcess

onOverallTimeout_Unguarded(e) ==
    /\ ~ErrorTickPending
    /\ cli[e].overall = "armed"
    /\ IF currentProcess /= 0
          THEN cli' = [Kill(cli, currentProcess) EXCEPT
                          ![e].overall = "fired", ![e].st = "resolved",
                          ![e].res = [success |-> FALSE,
                                      content |-> sanitizeOutput(cli[e].output),
                                      error |-> MaxDurationReached]]
          ELSE cli' = [cli EXCEPT ![e].overall = "fired"]
    /\ UNCHANGED currentProcess

onOverallTimeout(e) ==
    /\ ~ErrorTickPending
    /\ cli[e].overall = "armed"
    /\ IF cli[e].st = "pending" /\ currentProcess /= 0
          THEN cli' = [Kill(cli, currentProcess) EXCEPT
                          ![e].overall = "fired", ![e].st = "resolved",
                          ![e].res = [success |-> FALSE,
                                      content |-> sanitizeOutput(cli[e].output),
                                      error |-> MaxDurationReached]]
          ELSE cli' = [cli EXCEPT ![e].overall = "fired"]
    /\ UNCHANGED currentProcess

\* stdout 'data': output += sanitizeOutput(chunk); refreshTimeout();
\* options.onProgress(chunk).  `progress` is what onProgress has been given.
onStdoutData(e, chunk) ==
    /\ ~ErrorTickPending
    /\ cli[e].child \in {"alive", "exited"}
    /\ cli[e].nOut < MaxChunks
    /\ cli' = [cli EXCEPT ![e].output = @ \o sanitizeOutput(chunk),
                          ![e].captured = @ \o chunk,
                          ![e].nOut = @ + 1,
                          ![e].inact = "armed",
                          ![e].progress = @ \o sanitizeOutput(chunk)]
    /\ UNCHANGED currentProcess

\* stderr 'data': errorOutput += sanitizeOutput(chunk); refreshTimeout()
onStderrData(e, chunk) ==
    /\ ~ErrorTickPending
    /\ cli[e].child \in {"alive", "exited"}
    /\ cli[e].nErr < MaxErrChunks
    /\ cli' = [cli EXCEPT ![e].errorOutput = @ \o sanitizeOutput(chunk),
                          ![e].nErr = @ + 1,
                          ![e].inact = "armed"]
    /\ UNCHANGED currentProcess

\* The child ends: with an exit code on its own, or (code null) by a signal
\* it was sent.
childExits(e, code) ==
    /\ ~ErrorTickPending
    /\ cli[e].child = "alive"
    /\ code = NullCode => cli[e].sig
    /\ cli' = [cli EXCEPT ![e].child = "exited", ![e].code = code]
    /\ UNCHANGED currentProcess

\* The response the 'close' listener resolves with.
closeResponse(e, file, success) ==
    LET code == cli[e].code
        traj == parseTrajectoryFile(file)
        finalContent == IF traj.parsed /\ traj.has_final
                           THEN traj.final_result
                           ELSE sanitizeOutput(Trim(cli[e].output))
        toolCalls == IF traj.parsed THEN traj.toolCalls
                                    ELSE parseToolCalls(cli[e].output)
        stderrText == Trim(cli[e].errorOutput)
    IN  IF code = "0"
           THEN [success |-> success, content |-> finalContent,
                 toolCalls |-> toolCalls, mode |-> "cli"]
           ELSE [success |-> FALSE, content |-> finalContent,
                 error |-> IF stderrText /= <<>>
                              THEN stderrText
                              ELSE <<"Process exited with code", code>>,
                 mode |-> "cli"]

onClose_IgnoresTrace(e, file) ==
    /\ ~ErrorTickPending
    /\ cli[e].child \in {"exited", "errored"}
    /\ currentProcess' = 0
    /\ cli' = [cli EXCEPT
                  ![e].child = "closed",
                  ![e].inact = "cleared", ![e].overall = "cleared",
                  ![e].st = "resolved",
                  ![e].res = IF cli[e].st = "pending"
                                THEN closeResponse(e, file, cli[e].code = "0")
                                ELSE @]

\* The 'close' listener.
onClose(e, file) ==
    /\ ~ErrorTickPending
    /\ cli[e].child \in {"exited", "errored"}
    /\ currentProcess' = 0
    /\ LET traj == parseTrajectoryFile(file)
           success == cli[e].code = "0" /\ ~(traj.parsed /\ traj.success = "false")
       IN  cli' = [cli EXCEPT
                      ![e].child = "closed",
                      ![e].inact = "cleared", ![e].overall = "cleared",
                      ![e].st = "resolved",
                      ![e].res = IF cli[e].st = "pending"
                                    THEN closeResponse(e, file, success)
                                    ELSE @]

\* The 'error' listener (the command could not be started).
onError(e) ==
    /\ cli[e].child = "failed"
    /\ currentProcess' = 0
    /\ cli' = [cli EXCEPT
                  ![e].child = "errored", ![e].code = NegErrno,
                  ![e].inact = "cleared", ![e].overall = "cleared",
                  ![e].st = "resolved",
                  ![e].res = IF cli[e].st = "pending"
                                THEN [success |-> FALSE,
                                      content |-> sanitizeOutput(cli[e].output),
                                      error |-> <<"Process error: ", "spawn ENOENT">>,
                                      mode |-> "cli"]
                                ELSE @]

stopExecution ==
    /\ ~ErrorTickPending
    /\ currentProcess /= 0
    /\ cli' = Kill(cli, currentProcess)
    /\ currentProcess' = 0

NotTrae == UNCHANGED <<svcVars, uiVars, obsVars, agentVars, rawVars, dispatchVars, trajVars,
                       facadeVars, mcpVars, msgVars>>

\* The CLI fallback: executeAgent calls, their children and timers, and
\* stopExecution.
NextTrae ==
    \/ \E e \in Execs, spawned \in BOOLEAN : executeAgent(e, spawned) /\ NotTrae
    \/ \E e \in Execs : onTimeout(e) /\ NotTrae
    \/ \E e \in Execs : onOverallTimeout(e) /\ NotTrae
    \/ \E e \in Execs, chunk \in StdoutChunks : onStdoutData(e, chunk) /\ NotTrae
    \/ \E e \in Execs, chunk \in StderrChunks : onStderrData(e, chunk) /\ NotTrae
    \/ \E e \in Execs, code \in ExitCodes \cup {NullCode} : childExits(e, code) /\ NotTrae
    \/ \E e \in Execs, file \in TraceFiles : onClose(e, file) /\ NotTrae
    \/ \E e \in Execs : onError(e) /\ NotTrae
    \/ stopExecution /\ NotTrae

SpecTrae == Init /\ [][NextTrae]_vars

\* Timers that are set fire, a child that was sent SIGTERM ends, and the
\* 'close' and 'error' events of a child that ended or could not be started
\* are delivered.  Nothing obliges a child to end on its own.
SignalledChildEnds ==
    \E e \in Execs : cli[e].sig /\ childExits(e, NullCode) /\ NotTrae
ChildEvents ==
    \/ \E e \in Execs, file \in TraceFiles : onClose(e, file) /\ NotTrae
    \/ \E e \in Execs : onError(e) /\ NotTrae

SpecTraeLive ==
    /\ Init /\ [][NextTrae]_vars
    /\ \A e \in Execs : WF_vars(onTimeout(e) /\ NotTrae)
    /\ \A e \in Execs : WF_vars(onOverallTimeout(e) /\ NotTrae)
    /\ WF_vars(SignalledChildEnds)
    /\ WF_vars(ChildEvents)

\* ------------------------------------------ TraeAgentService: MCP path
\* A tool result: `content` (an array or not) of items; an item has a type
\* and, when it is text, a string.
JsonFailed == "{\"success\":false}"
ToolItems ==
    {[type |-> "text", text |-> <<"a">>], [type |-> "text", text |-> <<>>],
     [type |-> "image", text |-> <<"b">>]}
ItemSeqs == UNION {[1..n -> ToolItems] : n \in 0..MaxItems}
\* isError: the server flags the result as the error of the tool (with a
\* text, or with no content).
ToolResults ==
    [has_content : {FALSE}, content : {<<>>}, isError : {FALSE}] \cup
    [has_content : {TRUE}, content : ItemSeqs, isError : {FALSE}] \cup
    [has_content : {TRUE}, content : {<<>>, <<[type |-> "text", text |-> <<"a">>]>>},
     isError : {TRUE}]
\* Results of the session tools: also an error text and a JSON status.
SessionResults ==
    {r \in ToolResults : Len(r.content) <= 1} \cup
    [has_content : {TRUE},
     content : {<<[type |-> "text", text |-> <<"lf", "Error:">>]>>,
                <<[type |-> "text", text |-> <<JsonFailed>>]>>},
     isError : {FALSE}]

\* for (const item of result.content) if (item.type === 'text' ...) text += item.text
RECURSIVE TextOfItems(_)
TextOfItems(items) ==
    IF items = <<>> THEN <<>>
    ELSE (IF Head(items).type = "text" THEN Head(items).text ELSE <<>>)
             \o TextOfItems(Tail(items))
TextOf(result) == IF result.has_content THEN TextOfItems(result.content) ELSE <<>>

NotAvailableError == <<"Trae-agent is not available. Please ensure it is properly installed.">>
NoWorkingDirectoryError == <<"no project working directory detected">>
ListOutcomes == {"has tool", "no tool", "no list", "throws"}

\* A continuation of an `await` whose promise has settled runs before any later
\* event.
McpMicrotaskPending ==
    \E e \in Execs :
        \/ call[e].pc = "gotConnect"
        \/ call[e].pc = "awaitConnect" /\ conn[call[e].on].result /= "pending"
MacrotaskReady == ~ErrorTickPending /\ ~McpMicrotaskPending

\* checkAvailability's 'close' / 'error' listener of `trae-cli --help`
checkAvailabilityDone(ok) ==
    /\ MacrotaskReady
    /\ isAvailable /= ok
    /\ isAvailable' = ok
    /\ UNCHANGED <<mcpClient, mcpTransport, mcpConnectingPromise, lastMCPIssue, conn,
                   call, traeVars>>

\* ensureMCPConnected() called by e, up to its first await: the cached client,
\* the attempt in flight, or a new attempt (transport and client created,
\* connect started).  c: the calls as the caller has left them; issue:
\* lastMCPIssue as the caller has left it.
ensureMCPConnected(e, c, issue) ==
    IF mcpClient /= 0
       THEN /\ call' = [c EXCEPT ![e].pc = "gotConnect", ![e].connected = "true",
                                 ![e].client = mcpClient]
            /\ lastMCPIssue' = issue
            /\ UNCHANGED <<mcpClient, mcpTransport, mcpConnectingPromise, conn>>
       ELSE IF mcpConnectingPromise /= 0
          THEN /\ call' = [c EXCEPT ![e].pc = "awaitConnect",
                                    ![e].on = mcpConnectingPromise]
               /\ lastMCPIssue' = issue
               /\ UNCHANGED <<mcpClient, mcpTransport, mcpConnectingPromise, conn>>
          ELSE \E a \in Attempts :
                  /\ conn[a].pc = "none"
                  /\ \A b \in Attempts : b < a => conn[b].pc /= "none"
                  /\ lastMCPIssue' = None
                  /\ mcpTransport' = a
                  /\ mcpClient' = a
                  /\ mcpConnectingPromise' = a
                  /\ conn' = [conn EXCEPT ![a].pc = "connecting",
                                          ![a].transport = "started"]
                  /\ call' = [c EXCEPT ![e].pc = "awaitConnect", ![e].on = a]

\* What a call keeps of its options.workingDirectory: whether it has one.
HasWd(wd) == IF wd = None THEN None ELSE "set"

\* executeAgent from its first line to `await this.ensureMCPConnected()`.
\* wd = None: no options.workingDirectory.
executeAgentBody(e, wd, c, issue) ==
    IF ~isAvailable
       THEN /\ call' = [c EXCEPT ![e].pc = "returned",
                           ![e].res = [success |-> FALSE, content |-> <<>>,
                                       error |-> NotAvailableError]]
            /\ lastMCPIssue' = issue
            /\ UNCHANGED <<mcpClient, mcpTransport, mcpConnectingPromise, conn>>
       ELSE IF wd = None
          THEN /\ call' = [c EXCEPT ![e].pc = "returned",
                              ![e].res = [success |-> FALSE, content |-> <<>>,
                                          error |-> NoWorkingDirectoryError]]
               /\ lastMCPIssue' = issue
               /\ UNCHANGED <<mcpClient, mcpTransport, mcpConnectingPromise, conn>>
          ELSE ensureMCPConnected(e, c, issue)

\* A call of executeAgent(message, { workingDirectory: wd }).
executeAgentEntry(e, wd) ==
    /\ MacrotaskReady
    /\ call[e].pc = "idle" /\ cli[e].st = "idle"
    /\ executeAgentBody(e, wd, [call EXCEPT ![e].kind = "agent", ![e].wd = HasWd(wd)],
                        lastMCPIssue)
    /\ UNCHANGED <<isAvailable, traeVars>>

\* A call of executeAgentSession(message, { workingDirectory: wd }), to
\* `await this.ensureMCPConnected()`.
executeAgentSession(e, wd) ==
    /\ MacrotaskReady
    /\ call[e].pc = "idle" /\ cli[e].st = "idle"
    /\ IF isAvailable /\ wd /= None
          THEN ensureMCPConnected(e, [call EXCEPT ![e].kind = "session", ![e].wd = HasWd(wd)],
                                  lastMCPIssue)
          ELSE executeAgentBody(e, wd, [call EXCEPT ![e].kind = "session", ![e].wd = HasWd(wd)],
                                lastMCPIssue)
    /\ UNCHANGED <<isAvailable, traeVars>>

\* `await this.mcpClient.connect(...)` settles.  A failed handshake leaves the
\* transport closed (the SDK's connect closes it before it throws).
connectDone(a, ok) ==
    /\ MacrotaskReady
    /\ conn[a].pc = "connecting"
    /\ IF ok
          THEN /\ conn[a].transport = "started"
               /\ lastMCPIssue' = "connected"
               /\ conn' = [conn EXCEPT ![a].pc = "listing", ![a].handshake = TRUE]
               /\ UNCHANGED <<mcpClient, mcpTransport, mcpConnectingPromise>>
          ELSE /\ lastMCPIssue' = "connect failed"
               /\ mcpClient' = 0 /\ mcpTransport' = 0 /\ mcpConnectingPromise' = 0
               /\ conn' = [conn EXCEPT ![a].pc = "done", ![a].result = "false",
                                       ![a].transport = "closed"]
    /\ UNCHANGED <<isAvailable, call, traeVars>>

\* `await this.mcpClient.listTools?.()` settles.
listToolsDone(a, outcome) ==
    /\ MacrotaskReady
    /\ conn[a].pc = "listing"
    /\ outcome /= "throws" => conn[a].transport = "started"
    /\ mcpConnectingPromise' = 0
    /\ CASE outcome \in {"has tool", "no list"} ->
               /\ conn' = [conn EXCEPT ![a].pc = "done", ![a].result = "true",
                                       ![a].tools = outcome]
               /\ UNCHANGED <<mcpClient, mcpTransport, lastMCPIssue>>
         [] outcome = "no tool" ->
               /\ lastMCPIssue' = "run_trae_agent not found in tools"
               /\ mcpClient' = 0 /\ mcpTransport' = 0
               /\ conn' = [conn EXCEPT ![a].pc = "done", ![a].result = "false",
                                       ![a].tools = outcome]
         [] outcome = "throws" ->
               /\ lastMCPIssue' = "listTools failed"
               /\ mcpClient' = 0 /\ mcpTransport' = 0
               /\ conn' = [conn EXCEPT ![a].pc = "done", ![a].result = "false",
                                       ![a].tools = outcome]
    /\ UNCHANGED <<isAvailable, call, traeVars>>

\* The companion process of attempt a exits and its transport closes; the
\* onclose handler logs.
transportClosed(a) ==
    /\ MacrotaskReady
    /\ conn[a].transport = "started"
    /\ conn' = [conn EXCEPT ![a].transport = "closed"]
    /\ UNCHANGED <<isAvailable, mcpClient, mcpTransport, mcpConnectingPromise,
                   lastMCPIssue, call, traeVars>>

\* executeAgent / executeAgentSession after `await this.ensureMCPConnected()`:
\* the first tool call on the client, or the fallback (the CLI for executeAgent,
\* `return this.executeAgent(message, options)` for executeAgentSession).
ensureMCPResume(e, spawned) ==
    /\ \/ call[e].pc = "gotConnect"
       \/ call[e].pc = "awaitConnect" /\ conn[call[e].on].result /= "pending"
    /\ LET connected == IF call[e].pc = "gotConnect" THEN "true"
                                                     ELSE conn[call[e].on].result
           c == [call EXCEPT ![e].connected = connected]
       IN  IF connected = "true" /\ mcpClient /= 0
              THEN /\ spawned
                   /\ ~ErrorTickPending
                   /\ call' = [c EXCEPT ![e].client = mcpClient,
                                 ![e].pc = IF call[e].kind = "session"
                                              THEN "awaitStatus" ELSE "awaitCallTool",
                                 ![e].tool = IF call[e].kind = "session"
                                                THEN "get_session_status"
                                                ELSE "run_trae_agent"]
                   /\ UNCHANGED <<traeVars, mcpClient, mcpTransport,
                                  mcpConnectingPromise, lastMCPIssue, conn>>
              ELSE IF call[e].kind = "session"
                 THEN /\ spawned
                      /\ ~ErrorTickPending
                      /\ executeAgentBody(e, call[e].wd, [c EXCEPT ![e].kind = "agent"],
                                          lastMCPIssue)
                      /\ UNCHANGED traeVars
                 ELSE /\ call' = [c EXCEPT ![e].pc = "cli"]
                      /\ executeAgent(e, spawned)
                      /\ UNCHANGED <<mcpClient, mcpTransport, mcpConnectingPromise,
                                     lastMCPIssue, conn>>
    /\ UNCHANGED isAvailable

\* The status texts: JSON objects with a state or without one, the JSON text
\* null, a text that is no JSON, and the server's "No active session" line.
JsonWaiting == "{\"state\":\"WAITING\"}"
JsonRunning == "{\"state\":\"RUNNING\"}"
JsonNoState == "{}"
JsonNull == "null"
NotJson == "Session is waiting"
NoActiveSession == "no active session."
StatusTexts ==
    {<<>>, <<"lf">>, <<NoActiveSession>>, <<NotJson>>, <<JsonNoState>>, <<JsonNull>>,
     <<JsonRunning>>, <<JsonWaiting>>, <<"lf", JsonWaiting, "lf">>}
StatusResults ==
    [throws : {TRUE}, text : {<<>>}] \cup [throws : {FALSE}, text : StatusTexts]
\* The statuses the larger specifications draw from.
CommonStatuses ==
    {st \in StatusResults : st.text \in {<<NoActiveSession>>, <<JsonWaiting>>}}

Null == "null value"
\* sessionState after the try block around the get_session_status call
sessionStateOf(status) ==
    LET trimmed == Trim(status.text) IN
    IF status.throws \/ trimmed = <<>> \/ trimmed = <<NoActiveSession>> THEN Null
    ELSE IF trimmed = <<JsonWaiting>> THEN "WAITING"
    ELSE IF trimmed = <<JsonRunning>> THEN "RUNNING"
    ELSE IF trimmed \in {<<JsonNoState>>, <<JsonNull>>} THEN Null
    ELSE "UNKNOWN"

SessionArgs(isWaiting, wd) ==
    IF isWaiting
       THEN [observation |-> "message", message |-> "none", project_path |-> "none"]
       ELSE [observation |-> "none", message |-> "message", project_path |-> wd]

\* Every state that is not null counts as a waiting session.
sessionStatusDone_InjectsWhenBusy(e, status) ==
    /\ MacrotaskReady
    /\ call[e].pc = "awaitStatus"
    /\ LET isWaiting == sessionStateOf(status) /= Null IN
       call' = [call EXCEPT ![e].pc = "awaitCallTool",
                            ![e].status = status,
                            ![e].tool = IF isWaiting THEN "inject_observation"
                                                     ELSE "start_agent_session",
                            ![e].args = SessionArgs(isWaiting, call[e].wd)]
    /\ UNCHANGED <<isAvailable, mcpClient, mcpTransport, mcpConnectingPromise,
                   lastMCPIssue, conn, traeVars>>

\* executeAgentSession after the get_session_status call (a throw is ignored):
\* inject_observation into a WAITING session, else start_agent_session.
sessionStatusDone(e, status) ==
    /\ MacrotaskReady
    /\ call[e].pc = "awaitStatus"
    /\ LET isWaiting == sessionStateOf(status) = "WAITING" IN
       call' = [call EXCEPT ![e].pc = "awaitCallTool",
                            ![e].status = status,
                            ![e].tool = IF isWaiting THEN "inject_observation"
                                                     ELSE "start_agent_session",
                            ![e].args = SessionArgs(isWaiting, call[e].wd)]
    /\ UNCHANGED <<isAvailable, mcpClient, mcpTransport, mcpConnectingPromise,
                   lastMCPIssue, conn, traeVars>>

\* /^\s*Error:/i.test(text)
StartsWithError(text) == TrimStart(text) /= <<>> /\ Head(TrimStart(text)) = "Error:"
\* JSON.parse(text) gives an object
IsJsonObject(text) == text = <<JsonFailed>>
SessionSuccess(text) == IF IsJsonObject(text) THEN FALSE ELSE ~StartsWithError(text)
SessionContent(text) ==
    IF IsJsonObject(text) THEN <<"state: UNKNOWN", "steps: 0">> ELSE text

\* executeAgentSession after its start_agent_session / inject_observation
\* call: the response, or lastMCPIssue set and executeAgent run.
sessionToolDone(e, result, throws) ==
    /\ MacrotaskReady
    /\ call[e].pc = "awaitCallTool" /\ call[e].kind = "session"
    /\ IF ~throws /\ TextOf(result) /= <<>>
          THEN /\ lastMCPIssue' = IF SessionSuccess(TextOf(result))
                                     THEN None ELSE "MCP session tool returned an error"
               /\ call' = [call EXCEPT ![e].pc = "returned",
                              ![e].flagged = result.isError,
                              ![e].res = [success |-> SessionSuccess(TextOf(result)),
                                          content |-> SessionContent(TextOf(result)),
                                          mode |-> "mcp"]]
               /\ UNCHANGED <<mcpClient, mcpTransport, mcpConnectingPromise, conn>>
          ELSE executeAgentBody(e, call[e].wd,
                                [call EXCEPT ![e].kind = "agent", ![e].status = NoStatus,
                                             ![e].args = NoArgs],
                                IF throws THEN "callTool error"
                                ELSE "MCP session tool returned empty content")
    /\ UNCHANGED <<isAvailable, traeVars>>

callToolDone_AcceptsEmpty(e, result, throws, spawned) ==
    /\ MacrotaskReady
    /\ call[e].pc = "awaitCallTool" /\ call[e].kind = "agent"
    /\ IF ~throws
          THEN /\ spawned
               /\ lastMCPIssue' = None
               /\ call' = [call EXCEPT ![e].pc = "returned",
                              ![e].res = [success |-> TRUE, content |-> TextOf(result),
                                          mode |-> "mcp"]]
               /\ UNCHANGED traeVars
          ELSE /\ lastMCPIssue' = "callTool error"
               /\ call' = [call EXCEPT ![e].pc = "cli"]
               /\ executeAgent(e, spawned)
    /\ UNCHANGED <<isAvailable, mcpClient, mcpTransport, mcpConnectingPromise, conn>>

\* executeAgent after `await this.mcpClient.callTool({ name: 'run_trae_agent',
\* ... })`.
callToolDone(e, result, throws, spawned) ==
    /\ MacrotaskReady
    /\ call[e].pc = "awaitCallTool" /\ call[e].kind = "agent"
    /\ IF ~throws /\ TextOf(result) /= <<>>
          THEN /\ spawned
               /\ lastMCPIssue' = None
               /\ call' = [call EXCEPT ![e].pc = "returned",
                              ![e].flagged = result.isError,
                              ![e].res = [success |-> TRUE, content |-> TextOf(result),
                                          mode |-> "mcp"]]
               /\ UNCHANGED traeVars
          ELSE /\ lastMCPIssue' = IF throws THEN "callTool error"
                                            ELSE "MCP tool returned empty content"
               /\ call' = [call EXCEPT ![e].pc = "cli"]
               /\ executeAgent(e, spawned)
    /\ UNCHANGED <<isAvailable, mcpClient, mcpTransport, mcpConnectingPromise, conn>>

\* Trace files at the end of a fallback: none, or a trace with a verdict and a
\* final result.
FallbackTraceFiles ==
    {f \in TraceFiles : \/ f.kind = "missing"
                        \/ f.kind = "trace" /\ f.has_final /\ f.success /= "undefined"}

\* The response of call e: the one returned before the CLI fallback, or the
\* fallback's.
Response(e) == IF call[e].pc = "cli" THEN cli[e].res ELSE call[e].res

NotMcp == UNCHANGED <<svcVars, uiVars, obsVars, agentVars, rawVars, dispatchVars, trajVars,
                      facadeVars, msgVars>>

\* executeAgent calls on one TraeAgentService: availability, the MCP
\* connection and tool call, and the CLI fallback to the child's end.
NextMcp ==
    \/ \E ok \in BOOLEAN : checkAvailabilityDone(ok) /\ NotMcp
    \/ \E e \in Execs, wd \in Cwds \cup {None} : executeAgentEntry(e, wd) /\ NotMcp
    \/ \E e \in Execs, wd \in Cwds \cup {None} : executeAgentSession(e, wd) /\ NotMcp
    \/ \E a \in Attempts, ok \in BOOLEAN : connectDone(a, ok) /\ NotMcp
    \/ \E a \in Attempts, outcome \in ListOutcomes : listToolsDone(a, outcome) /\ NotMcp
    \/ \E a \in Attempts : transportClosed(a) /\ NotMcp
    \/ \E e \in Execs, spawned \in BOOLEAN : ensureMCPResume(e, spawned) /\ NotMcp
    \/ \E e \in Execs, status \in CommonStatuses : sessionStatusDone(e, status) /\ NotMcp
    \/ \E e \in Execs, result \in SessionResults, throws \in BOOLEAN :
          sessionToolDone(e, result, throws) /\ NotMcp
    \/ \E e \in Execs, result \in ToolResults, throws, spawned \in BOOLEAN :
          callToolDone(e, result, throws, spawned) /\ NotMcp
    \/ \E e \in Execs, code \in ExitCodes :
          ~McpMicrotaskPending /\ childExits(e, code) /\ NotTrae
    \/ \E e \in Execs, file \in FallbackTraceFiles :
          ~McpMicrotaskPending /\ onClose(e, file) /\ NotTrae
    \/ \E e \in Execs : onError(e) /\ NotTrae

SpecMcp == Init /\ [][NextMcp]_vars

\* One executeAgentSession call with every status the server can report.
NextSession ==
    \/ \E ok \in BOOLEAN : checkAvailabilityDone(ok) /\ NotMcp
    \/ \E wd \in Cwds \cup {None} : executeAgentSession(1, wd) /\ NotMcp
    \/ \E a \in Attempts, ok \in BOOLEAN : connectDone(a, ok) /\ NotMcp
    \/ \E a \in Attempts, outcome \in ListOutcomes : listToolsDone(a, outcome) /\ NotMcp
    \/ \E a \in Attempts : transportClosed(a) /\ NotMcp
    \/ \E spawned \in BOOLEAN : ensureMCPResume(1, spawned) /\ NotMcp
    \/ \E status \in StatusResults : sessionStatusDone(1, status) /\ NotMcp
    \/ \E result \in SessionResults, throws \in BOOLEAN :
          sessionToolDone(1, result, throws) /\ NotMcp
    \/ \E result \in ToolResults, throws, spawned \in BOOLEAN :
          callToolDone(1, result, throws, spawned) /\ NotMcp
    \/ \E code \in ExitCodes : ~McpMicrotaskPending /\ childExits(1, code) /\ NotTrae
    \/ \E file \in FallbackTraceFiles :
          ~McpMicrotaskPending /\ onClose(1, file) /\ NotTrae
    \/ onError(1) /\ NotTrae

SpecSession == Init /\ [][NextSession]_vars

\* ------------------------------------- AIChatViewProvider: handleAIMessage
SvcRest == <<killed, requestSeq, pendingRequests, pendingTurns, bufferedTurnResults,
             threadId, threadCwd, currentTurnId, disposed, available, caller, uiVars,
             initWritten, settled, answered, bufferedUses, execIds, seenServerIds,
             replyCount, lastReply>>

ensureReadyCall_AlwaysStarts(throws) ==
    /\ IF disposed
          THEN UNCHANGED <<process, reader, spawnCount, sp, initializePromise>>
          ELSE startProcess(throws)
    /\ UNCHANGED SvcRest

\* codexAgent.ensureReady() up to its await, called by the provider.
ensureReadyCall(throws) ==
    /\ IF disposed \/ initializePromise /= "none"
          THEN UNCHANGED <<process, reader, spawnCount, sp, initializePromise>>
          ELSE startProcess(throws)
    /\ UNCHANGED SvcRest

\* What `await this.codexAgent.ensureReady()` gives once initializePromise has
\* settled.
InitializeSettled == disposed \/ initializePromise \in {"fulfilled", "rejected"}
CodexReady == ~disposed /\ initializePromise = "fulfilled" /\ available

\* initializeAgentBackend after `await detectAvailability(...)`: the new
\* service, registerCodexListeners and `await this.codexAgent.ensureReady()`
\* to its await.
initializeAgentBackendResume(codexAvailable, throws) ==
    /\ detectAvailabilityDone(1, codexAvailable)
    /\ IF codexAvailable THEN ensureReadyCall(throws)
                         ELSE UNCHANGED <<svcVars, uiVars, obsVars>>
    /\ UNCHANGED <<agentVars, rawVars, dispatchVars, trajVars, traeVars, mcpVars, msgVars>>

\* this.agentInitializationPromise has settled: initializeAgentBackend has
\* returned, its ensureReady() included.
AgentInitializationSettled ==
    /\ run[1].pc = "done"
    /\ codexAgent /= 0 => InitializeSettled

\* The continuation of an await of the message handler on a settled promise.
MsgMicrotaskPending == msg.pc \in {"ready1", "ready2"} /\ InitializeSettled
Quiet == ~MicrotaskPending /\ ~MsgMicrotaskPending /\ MacrotaskReady

NotMsg == UNCHANGED <<agentVars, rawVars, dispatchVars, trajVars, traeVars, mcpVars>>
Finished(outcome) == [msg EXCEPT !.pc = "done", !.outcome = outcome]

\* toggleAgentMode: agent mode is switched on only if ensureAgentReady() says
\* the active backend is ready.
toggleAgentMode ==
    /\ Quiet
    /\ msg.pc /= "none"
    /\ AgentInitializationSettled
    /\ useAgentMode' =
          IF useAgentMode THEN FALSE
          ELSE IF agentBackend = "codex" THEN codexAgent /= 0 /\ CodexReady
               ELSE isAvailable
    /\ UNCHANGED <<msg, facadeVars, svcVars, uiVars, obsVars>>
    /\ NotMsg

\* handleAIMessage from line 318 on: the Trae agent in agent mode if it is
\* available, else the default model.
RouteMessage ==
    IF useAgentMode /\ isAvailable
       THEN [msg EXCEPT !.pc = "agentWd", !.agentMode = TRUE]
       ELSE [msg EXCEPT !.pc = "default", !.agentMode = useAgentMode]

\* handleAIMessage after `await this.agentInitializationPromise`, up to its next
\* await: inside ensureCodexReady, or at the Trae agent / the default model.
handleAIMessage(throws) ==
    /\ Quiet
    /\ msg.pc = "idle"
    /\ AgentInitializationSettled
    /\ IF useAgentMode /\ agentBackend = "codex"
          THEN IF codexAgent = 0
                  THEN /\ msg' = [msg EXCEPT !.pc = "status", !.agentMode = TRUE]
                       /\ agentBackend' = "trae"
                       /\ UNCHANGED <<svcVars, uiVars, obsVars>>
                  ELSE /\ msg' = [msg EXCEPT !.pc = "ready1", !.agentMode = TRUE]
                       /\ ensureReadyCall(throws)
                       /\ UNCHANGED agentBackend
          ELSE /\ msg' = RouteMessage
               /\ UNCHANGED <<agentBackend, svcVars, uiVars, obsVars>>
    /\ UNCHANGED <<useAgentMode, codexAgent, services, preferredAgentBackend,
                   codexBinaryPath, run>>
    /\ NotMsg

\* handleAIMessage after `await this.ensureCodexReady()`: executeCodexAgentTurn
\* to its `await this.codexAgent.ensureReady()`, or the warning and the switch
\* to trae.
ensureCodexReadyResume(throws) ==
    /\ msg.pc = "ready1"
    /\ InitializeSettled
    /\ IF CodexReady
          THEN IF codexAgent = 0
                  THEN /\ msg' = Finished("codex not initialized")
                       /\ UNCHANGED <<svcVars, uiVars, obsVars>>
                  ELSE /\ msg' = [msg EXCEPT !.pc = "ready2"]
                       /\ ensureReadyCall(throws)
               /\ UNCHANGED agentBackend
          ELSE /\ msg' = [msg EXCEPT !.pc = "status"]
               /\ agentBackend' = "trae"
               /\ UNCHANGED <<svcVars, uiVars, obsVars>>
    /\ UNCHANGED <<useAgentMode, codexAgent, services, preferredAgentBackend,
                   codexBinaryPath, run>>
    /\ NotMsg

\* handleAIMessage after `await this.sendAgentStatus()`.
sendAgentStatusDone ==
    /\ Quiet
    /\ msg.pc = "status"
    /\ msg' = RouteMessage
    /\ UNCHANGED <<useAgentMode, facadeVars, svcVars, uiVars, obsVars>>
    /\ NotMsg

\* executeCodexAgentTurn after `await this.codexAgent.ensureReady()`.
executeCodexAgentTurnResume ==
    /\ msg.pc = "ready2"
    /\ InitializeSettled
    /\ msg' = IF CodexReady THEN [msg EXCEPT !.pc = "resolveWd"]
                            ELSE Finished("codex unavailable")
    /\ UNCHANGED <<useAgentMode, facadeVars, svcVars, uiVars, obsVars>>
    /\ NotMsg

\* executeCodexAgentTurn after `await this.resolveWorkingDirectory()`: the
\* warning when there is none, else codexAgent.sendMessage(message, wd).
resolveWorkingDirectoryDone(wd, throws) ==
    /\ Quiet
    /\ msg.pc = "resolveWd"
    /\ IF wd = None
          THEN /\ msg' = Finished("no working directory")
               /\ UNCHANGED <<svcVars, uiVars, obsVars>>
          ELSE /\ msg' = [msg EXCEPT !.pc = "sending"]
               /\ sendMessage(1, wd, throws)
    /\ UNCHANGED <<useAgentMode, facadeVars>>
    /\ NotMsg

\* executeCodexAgentTurn after `await this.codexAgent.sendMessage(...)`: the
\* response, or the failure message of the catch.
sendMessageSettled ==
    /\ Quiet
    /\ msg.pc = "sending"
    /\ caller[1].pc \in {"resolved", "rejected"}
    /\ msg' = Finished(IF caller[1].pc = "resolved" THEN "codex response"
                                                    ELSE "codex failed")
    /\ UNCHANGED <<useAgentMode, facadeVars, svcVars, uiVars, obsVars>>
    /\ NotMsg

\* handleAgentMessage / handleAgentSessionMessage to the await of the agent
\* call: the failure text when no working directory is found, else
\* executeAgent or executeAgentSession.
handleAgentMessage(wd, useSessionMode) ==
    /\ Quiet
    /\ msg.pc = "agentWd"
    /\ IF wd = None
          THEN /\ msg' = Finished("no working directory")
               /\ UNCHANGED <<traeVars, mcpVars>>
          ELSE /\ msg' = [msg EXCEPT !.pc = "awaitAgent"]
               /\ IF useSessionMode THEN executeAgentSession(1, wd)
                                    ELSE executeAgentEntry(1, wd)
    /\ UNCHANGED <<useAgentMode, facadeVars, svcVars, uiVars, obsVars, agentVars,
                   rawVars, dispatchVars, trajVars>>

ResponseReady(e) ==
    \/ call[e].pc = "returned"
    \/ call[e].pc = "cli" /\ cli[e].st = "resolved"

\* handleAgentMessage after the agent call: the response text, or the failure
\* text with result.error.
agentCallSettled ==
    /\ Quiet
    /\ msg.pc = "awaitAgent"
    /\ ResponseReady(1)
    /\ msg' = Finished(IF Response(1).success THEN "agent response"
                                              ELSE "agent failed")
    /\ UNCHANGED <<useAgentMode, facadeVars, svcVars, uiVars, obsVars>>
    /\ NotMsg

\* handleAIMessage after `await this.callDefaultModel(...)`: the streamed
\* answer, or the error message of the catch.
callDefaultModelDone(ok) ==
    /\ Quiet
    /\ msg.pc = "default"
    /\ msg' = Finished(IF ok THEN "model response" ELSE "error message")
    /\ UNCHANGED <<useAgentMode, facadeVars, svcVars, uiVars, obsVars>>
    /\ NotMsg

\* The provider after its constructor, with either backend configured and a
\* message to come; or no view and no Codex backend, the Trae service being
\* called directly.
InitMessage ==
    /\ InitService /\ InitTrae
    /\ line = EmptyLine /\ route = "unset"
    /\ trajectory = EmptyTrace /\ trajResult = NotParsed
    /\ useAgentMode = FALSE
    /\ msg \in {NoMessage, [NoMessage EXCEPT !.pc = "idle"]}
    /\ codexAgent = 0
    /\ services = [i \in Runs |-> "none"]
    /\ preferredAgentBackend \in Backends
    /\ msg.pc = "none" => preferredAgentBackend = "trae"
    /\ codexBinaryPath = None
    /\ agentBackend = preferredAgentBackend
    /\ run = [r \in Runs |->
                 IF r = 1 THEN [pc |-> IF preferredAgentBackend = "codex"
                                          THEN "awaitDetect" ELSE "done",
                                force |-> FALSE]
                 ELSE [pc |-> "none", force |-> FALSE]]

TurnLines == {m \in ResponseLines \cup NotificationLines : m.id <= 3}

\* One message of the webview handled by the provider, over both backends; or
\* direct calls of executeAgent and executeAgentSession.
NextMessage ==
    \/ \E ok, throws \in BOOLEAN :
          Quiet /\ msg.pc /= "none" /\ initializeAgentBackendResume(ok, throws)
    \/ toggleAgentMode
    \/ \E throws \in BOOLEAN : handleAIMessage(throws)
    \/ \E throws \in BOOLEAN : ensureCodexReadyResume(throws)
    \/ sendAgentStatusDone
    \/ executeCodexAgentTurnResume
    \/ \E wd \in Cwds \cup {None}, throws \in BOOLEAN :
          resolveWorkingDirectoryDone(wd, throws)
    \/ sendMessageSettled
    \/ \E wd \in Cwds \cup {None}, s \in BOOLEAN : handleAgentMessage(wd, s)
    \/ agentCallSettled
    \/ \E ok \in BOOLEAN : callDefaultModelDone(ok)
    \* the Codex service and its agent
    \/ ~MsgMicrotaskPending /\ spawnEvent /\ NotAgent
    \/ ~MsgMicrotaskPending /\ errorEvent /\ NotAgent
    \/ \E ok \in BOOLEAN : ~MsgMicrotaskPending /\ writeCallbackInit(ok) /\ NotAgent
    \/ startProcessReady /\ NotAgent
    \/ ensureReadyResume(1) /\ NotAgent
    \/ \E ok \in BOOLEAN : ~MsgMicrotaskPending /\ writeCallback(1, ok) /\ NotAgent
    \/ startThreadResume(1) /\ NotAgent
    \/ sendMessageResume(1) /\ NotAgent
    \/ turnStartResume(1) /\ NotAgent
    \/ \E m \in TurnLines :
          ~MsgMicrotaskPending /\ AgentSends(m) /\ handleLine(m) /\ NotFacade
    \/ ~MsgMicrotaskPending /\ exitEvent /\ NotAgent
    \* the Trae service
    \/ \E e \in Execs, wd \in Cwds \cup {None} :
          msg.pc = "none" /\ executeAgentEntry(e, wd) /\ NotMcp
    \/ \E e \in Execs, wd \in Cwds \cup {None} :
          msg.pc = "none" /\ executeAgentSession(e, wd) /\ NotMcp
    \/ \E ok \in BOOLEAN : checkAvailabilityDone(ok) /\ NotMcp
    \/ \E a \in Attempts, ok \in BOOLEAN : connectDone(a, ok) /\ NotMcp
    \/ \E a \in Attempts, outcome \in ListOutcomes : listToolsDone(a, outcome) /\ NotMcp
    \/ \E a \in Attempts : transportClosed(a) /\ NotMcp
    \/ \E e \in Execs, spawned \in BOOLEAN : ensureMCPResume(e, spawned) /\ NotMcp
    \/ \E e \in Execs, status \in CommonStatuses : sessionStatusDone(e, status) /\ NotMcp
    \/ \E e \in Execs, result \in SessionResults, throws \in BOOLEAN :
          sessionToolDone(e, result, throws) /\ NotMcp
    \/ \E e \in Execs, result \in ToolResults, throws, spawned \in BOOLEAN :
          callToolDone(e, result, throws, spawned) /\ NotMcp
    \/ \E e \in Execs, code \in ExitCodes :
          ~McpMicrotaskPending /\ childExits(e, code) /\ NotTrae
    \/ \E e \in Execs, file \in FallbackTraceFiles :
          ~McpMicrotaskPending /\ onClose(e, file) /\ NotTrae
    \/ \E e \in Execs : onError(e) /\ NotTrae

SpecMessage == InitMessage /\ [][NextMessage]_vars

\* ================================================================ claims
AfterEnsureReady == {"threadWrite", "turnWrite", "awaitThread", "awaitTurn",
                     "gotThread", "threadStarted", "gotTurn", "waitTurn", "resolved"}

\* C1: overlapping ensureReady() calls on an uninitialized service spawn one
\* process and send one `initialize` request; every caller waits on, and goes
\* on only after, that one initialization.
C1_SingleInitialization ==
    /\ spawnCount <= 1
    /\ initWritten <= 1
    /\ \A c \in Callers :
          /\ caller[c].pc = "awaitInit" => initializePromise /= "none"
          /\ caller[c].pc \in AfterEnsureReady => initializePromise = "fulfilled"

\* Two calls overlap on the one initialization in flight.
C1_Witness ==
    /\ \A c \in Callers : caller[c].pc = "awaitInit"
    /\ initializePromise = "pending"
    /\ sp.pc = "awaitInit"
    /\ spawnCount = 1 /\ initWritten = 1

\* C2: a PendingRequest is settled at most once, whatever responses (also
\* duplicates) arrive and whenever dispose() is called; a response whose id
\* has no registered PendingRequest changes nothing.
C2_SettledAtMostOnce ==
    /\ \A i \in ReqIds : settled[i] <= 1
    /\ \A m \in ResponseLines :
          m.id \notin pendingRequests
              => ~ENABLED (handleLine(m) /\ NotFacade /\ vars' /= vars)

\* One request was settled by its response and another by dispose(), after
\* which neither is registered.
C2_Witness ==
    /\ disposed
    /\ \E i, j \in ReqIds :
          /\ i \in answered /\ settled[i] = 1
          /\ j \notin answered /\ settled[j] = 1
          /\ pendingRequests = {}

\* C3: every response line whose id has a registered PendingRequest settles
\* and removes it, whatever JSON value its `result` member holds.
C3_EveryResponseSettles == answered \cap pendingRequests = {}

\* C4: a line with `method` and `id` reaches handleServerRequest and a line
\* with `method` and no `id` reaches handleNotification, whatever the id value
\* and whether or not `params` is present.
C4_DispatchByMethodAndId ==
    route /= "unset" =>
        /\ (line.method /= None /\ HasId(line)) => route = "handleServerRequest"
        /\ (line.method /= None /\ ~HasId(line)) => route = "handleNotification"

\* C5: for every server-initiated approval request id at most one decision
\* reply is written to the agent, also when the webview delivers a decision
\* for the same requestId twice or without a requestId.
C5_OneDecisionPerRequest == \A i \in seenServerIds : replyCount[i] <= 1

\* C6: the reply to a command-execution approval says approved or
\* approved_for_session only if the user's decision was exactly that value.
C6_NoDefaultApprovalForCommands ==
    (lastReply.id \in execIds
        /\ lastReply.written \in {"approved", "approved_for_session"})
    => lastReply.supplied = lastReply.written

\* C7: a turn/completed processed before a waiter is registered is stored in
\* bufferedTurnResults; the sendMessage whose turn/start response names the
\* turn returns the stored text and removes the entry, so an entry serves at
\* most one call and a later wait on the turn registers a waiter instead.
C7_BufferedResultConsumedOnce ==
    /\ [](\A t \in TurnIds :
            /\ bufferedUses[t] <= 1
            /\ bufferedUses[t] = 1 => bufferedTurnResults[t] = None)
    /\ [][\A t \in TurnIds :
            (t \in openTurns /\ t \notin openTurns' /\ pendingTurns[t] = 0)
                => bufferedTurnResults'[t] /= None]_vars
    /\ [][\A c \in Callers :
            (caller[c].pc = "gotTurn" /\ caller[c].res /= None
                /\ caller'[c].pc /= "gotTurn")
            => IF bufferedTurnResults[caller[c].res] /= None
                  THEN /\ caller'[c].pc = "resolved"
                       /\ caller'[c].res = bufferedTurnResults[caller[c].res]
                       /\ bufferedTurnResults'[caller[c].res] = None
                  ELSE /\ caller'[c].pc = "waitTurn"
                       /\ pendingTurns'[caller[c].res] = c]_vars

\* One call has returned the buffered result of a turn and a later call waits
\* on the same turn id with nothing left in the buffer.
C7_Witness ==
    \E t \in TurnIds, c, d \in Callers :
        /\ bufferedUses[t] = 1
        /\ caller[c].pc = "resolved"
        /\ caller[d].pc = "waitTurn" /\ caller[d].res = t
        /\ pendingTurns[t] = d

\* sendMessage is suspended on the thread/start response, the turn/start
\* response or the turn/completed notification.
Waiting(c) == caller[c].pc \in {"awaitThread", "awaitTurn", "waitTurn"}
Settled(c) == caller[c].pc \in {"resolved", "rejected"}

\* C8: a sendMessage call that is waiting for the thread/start response, the
\* turn/start response or turn/completed when the agent process exits does
\* not stay pending forever: it resolves or rejects (at the latest when the
\* owner calls dispose(), which rejects everything that is pending).
C8_SendMessageSettles ==
    \A c \in Callers :
        (Waiting(c) /\ process = "exited") ~> (Settled(c) \/ disposed)

\* C9: at most one CodexAgentService is live, and it is the one the provider
\* references: every re-initialization has disposed the previous instance
\* before it creates the next.
C9_OneLiveConnection ==
    /\ Cardinality({i \in Runs : services[i] = "live"}) <= 1
    /\ \A i \in Runs : services[i] = "live" => codexAgent = i

\* The process has spawned, the initialize request was written and its
\* response line was read.
HandshakeDone ==
    /\ process \in {"running", "exited"}
    /\ initWritten = 1
    /\ sp.req \in answered

\* C10: `available` is true, and ensureReady() has returned true, only after
\* the process has spawned, the initialize request was written and its
\* response was received.
C10_ReadyOnlyAfterHandshake ==
    /\ available => HandshakeDone
    /\ \A c \in Callers : caller[c].pc \in AfterEnsureReady => HandshakeDone

\* The service is ready and a caller's ensureReady() has returned true.
C10_Witness ==
    /\ available
    /\ \E c \in Callers : caller[c].pc = "threadWrite"

\* The PendingRequest of caller c, or its turn waiter, is registered.
Registered(c) ==
    \/ caller[c].pc \in {"awaitThread", "awaitTurn"} /\ caller[c].req \in pendingRequests
    \/ caller[c].pc = "waitTurn" /\ pendingTurns[caller[c].res] = c

\* C11: dispose() kills the process and rejects every registered
\* PendingRequest and turn waiter with the disposed failure, leaving both
\* tables empty; a second or later dispose() changes nothing.
C11_DisposeRejectsAllOnce ==
    [][(dispose /\ NotAgent) =>
          /\ pendingRequests' = {}
          /\ \A t \in TurnIds : pendingTurns'[t] = 0
          /\ \A c \in Callers :
                Registered(c) => /\ caller'[c].pc = "rejected"
                                 /\ caller'[c].res = "disposed"
          /\ process \in {"spawning", "running"} => killed'
          /\ disposed => UNCHANGED vars]_vars

\* C12: disposed is terminal: once dispose() has been called the flag stays
\* set, no process is spawned any more, and every sendMessage() called from
\* then on fails at its ensureReady() (which returns false).
C12_DisposedIsTerminal ==
    [][disposed =>
          /\ disposed'
          /\ spawnCount' = spawnCount
          /\ \A c \in Callers :
                (caller[c].pc = "idle" /\ caller'[c].pc /= "idle")
                    => /\ caller'[c].pc = "rejected"
                       /\ caller'[c].res = "unavailable"]_vars

\* A ready service was disposed (`available` is still set) and a sendMessage
\* called afterwards has failed.
C12_Witness ==
    /\ disposed /\ available /\ initializePromise = "fulfilled"
    /\ \E c \in Callers : caller[c].pc = "rejected" /\ caller[c].res = "unavailable"

\* C13: when the process of a ready connection exits, isAvailable() becomes
\* false, and a later ensureReady() re-initializes: it spawns a fresh process
\* (and repeats the initialize exchange).
C13_ReinitializesAfterExit ==
    [][/\ (process = "running" /\ process' = "exited") => ~available'
       /\ \A c \in Callers :
             (/\ process = "exited" /\ initializePromise = "fulfilled"
              /\ ~available /\ ~disposed
              /\ caller[c].pc = "idle" /\ caller'[c].pc /= "idle")
                 => /\ spawnCount' = spawnCount + 1
                    /\ process' = "spawning"]_vars

\* C14: sendMessage issues thread/start exactly when there is no thread or
\* the thread's directory differs from workingDirectory, and otherwise sends
\* its turn/start on the existing thread; a successful thread/start sets
\* threadId and threadCwd to the new thread and workingDirectory, a failed
\* one leaves both unchanged.
C14_ThreadStartedIffNeeded ==
    [][\A c \in Callers :
          /\ (/\ caller[c].pc = "awaitInit" /\ caller'[c].pc /= "awaitInit"
              /\ initializePromise = "fulfilled" /\ available /\ Writable)
                => IF threadId = None \/ threadCwd /= caller[c].wd
                      THEN caller'[c].pc = "threadWrite"
                      ELSE /\ caller'[c].pc = "turnWrite"
                           /\ caller'[c].thread = threadId
          /\ (caller[c].pc /= "threadWrite" /\ caller'[c].pc = "threadWrite")
                => /\ caller[c].pc = "awaitInit"
                   /\ threadId = None \/ threadCwd /= caller[c].wd
          /\ (caller[c].pc = "gotThread" /\ caller[c].res /= None
                /\ caller'[c].pc /= "gotThread")
                => threadId' = caller[c].res /\ threadCwd' = caller[c].wd
          /\ (/\ \/ caller[c].pc \in {"threadWrite", "awaitThread"}
                 \/ caller[c].pc = "gotThread" /\ caller[c].res = None
              /\ caller'[c].pc = "rejected")
                => UNCHANGED <<threadId, threadCwd>>]_vars

\* A second call for the same directory has sent its turn/start on the thread
\* the first call started, using one request id only.
C14_Witness ==
    \E c, d \in Callers :
        /\ caller[d].pc = "resolved"
        /\ caller[c].pc = "turnWrite"
        /\ caller[c].wd = caller[d].wd
        /\ caller[c].thread = caller[d].thread /\ caller[c].thread = threadId
        /\ caller[c].req = caller[d].req + 1

\* The turn named by currentTurnId has been started and is not completed.
TurnInProgress == currentTurnId /= None /\ currentTurnId \in openTurns

\* C15: interruptCurrentTurn() writes nothing when there is no thread or no
\* turn in progress; otherwise it sends one turn/interrupt request naming the
\* current thread and turn; its promise never rejects.
C15_InterruptOnlyTurnInProgress ==
    [][\A c \in Callers :
          /\ (caller[c].pc = "idle" /\ caller'[c].pc \in {"intrWrite", "intrDone"})
                => IF threadId /= None /\ TurnInProgress
                      THEN /\ requestSeq' = requestSeq + 1
                           /\ caller'[c].pc = "intrWrite"
                                 => /\ caller'[c].thread = threadId
                                    /\ caller'[c].res = currentTurnId
                      ELSE /\ requestSeq' = requestSeq
                           /\ caller'[c].pc = "intrDone"
          /\ caller[c].pc \in {"intrWrite", "awaitIntr", "intrDone"}
                => caller'[c].pc /= "rejected"]_vars

\* C16: every server request other than execCommandApproval is answered in
\* the step that handles its line, without the user, by exactly one reply
\* {id, result: {decision: "approved"}}; when the reply cannot be written the
\* failure is swallowed; the service's state is not disturbed either way.
C16_AutoApprovesOtherRequests ==
    [][\A m \in ServerRequestLines :
          (m.method /= "execCommandApproval" /\ AgentSends(m) /\ handleLine(m))
              => /\ Writable =>
                       /\ replyCount'[m.id] = 1
                       /\ lastReply' = [id |-> m.id, supplied |-> "approved",
                                        written |-> "approved"]
                 /\ ~Writable => UNCHANGED <<replyCount, lastReply>>
                 /\ UNCHANGED <<svcVars, uiVars, execIds>>]_vars

\* C17: request ids are distinct and strictly increasing in issue order: each
\* sendRequest takes the current value of requestSeq and advances it by one,
\* also when its write fails, and the counter never goes back, so every id
\* in use is below the counter and no id is issued twice.
C17_RequestIdsIncrease ==
    /\ [](/\ sp.req < requestSeq
          /\ \A c \in Callers : caller[c].req < requestSeq
          /\ \A i \in pendingRequests : i < requestSeq)
    /\ [][
          /\ requestSeq' \in {requestSeq, requestSeq + 1}
          /\ (sp'.req /= sp.req)
                => (sp'.req = requestSeq /\ requestSeq' = requestSeq + 1)
          /\ \A c \in Callers :
                /\ (caller'[c].req /= caller[c].req)
                      => (caller'[c].req = requestSeq /\ requestSeq' = requestSeq + 1)
                /\ (caller'[c].res = "stdin not writable"
                      /\ caller[c].res /= "stdin not writable")
                      => requestSeq' = requestSeq + 1
       ]_vars

\* The write of request 3 failed, and a later request took id 4 although it
\* could not be written either.
C17_Witness ==
    \E c, d \in Callers :
        /\ caller[c].res = "write failed" /\ caller[c].req = 3
        /\ caller[d].res = "stdin not writable"
        /\ requestSeq = 5

\* C18: a line that is not valid JSON is reported by an 'error' event and
\* changes nothing else: no PendingRequest is settled, no thread or turn state
\* changes, the reader stays open, and the lines that follow are dispatched
\* as before (a response still settles its registered request).
C18_InvalidLineIgnored ==
    /\ [][parseErrors' /= parseErrors
            => /\ parseErrors' = parseErrors + 1
               /\ UNCHANGED <<svcVars, uiVars, obsVars, agentVars>>]_vars
    /\ []((parseErrors > 0 /\ process = "running" /\ ~disposed)
            => /\ reader = "open"
               /\ \A m \in ResponseLines :
                     (m.id \in pendingRequests /\ Route(m) = "handleResponse")
                         => ENABLED (/\ handleLine(m) /\ NotFacade
                                     /\ m.id \notin pendingRequests'))

\* A line that is not JSON was read while the initialize request was in
\* flight, and the request is still registered.
C18_Witness ==
    /\ parseErrors > 0
    /\ sp.pc = "awaitInit" /\ sp.req \in pendingRequests
    /\ reader = "open"

\* C19: under fair timers and event delivery, every executeAgent call that
\* reached the CLI fallback is eventually resolved, also when its child never
\* ends on its own, when stopExecution() is called, and when calls overlap.
C19_CliCallResolves ==
    \A e \in Execs : (cli[e].st = "pending") ~> (cli[e].st = "resolved")

TimerFires(e) ==
    \/ cli[e].inact = "armed" /\ cli'[e].inact = "fired"
    \/ cli[e].overall = "armed" /\ cli'[e].overall = "fired"

\* C20: when the inactivity or the overall timer of a pending call fires
\* before its child has closed, that child is sent the termination signal and
\* the call resolves with success = false, a timeout error and the sanitized
\* stdout captured so far as content.
C20_TimeoutKillsAndResolves ==
    [][\A e \in Execs :
          (TimerFires(e) /\ cli[e].st = "pending" /\ cli[e].child /= "closed")
              => /\ cli'[e].sig
                 /\ cli'[e].st = "resolved"
                 /\ "error" \in DOMAIN cli'[e].res
                 /\ cli'[e].res.success = FALSE
                 /\ cli'[e].res.error \in {TimedOut, MaxDurationReached}
                 /\ cli'[e].res.content = sanitizeOutput(cli[e].captured)]_vars

\* C28: every response of the CLI fallback with success = false carries a
\* non-empty `error`.
C28_FailureCarriesError ==
    \A e \in Execs :
        (cli[e].st = "resolved" /\ ~cli[e].res.success)
            => /\ "error" \in DOMAIN cli[e].res
               /\ cli[e].res.error /= <<>>

\* The step is the 'close' listener of e, run with trace file `file` while
\* the call is pending.
ClosesPending(e, file) ==
    /\ cli[e].st = "pending"
    /\ cli[e].child /= "closed" /\ cli'[e].child = "closed"
    /\ onClose(e, file)

\* C29: when the child's close resolves the call, success is exactly: exit
\* code 0 and the trace file holds no trace with `success: false`.
C29_SuccessFromCodeAndTrace ==
    [][\A e \in Execs, file \in TraceFiles :
          ClosesPending(e, file)
              => (cli'[e].res.success
                     <=> (/\ cli[e].code = "0"
                          /\ ~(file.kind = "trace" /\ file.success = "false")))]_vars

\* One call closed with code 0 and succeeded; the other closed with code 0
\* and failed (its trace says `success: false`).
C29_Witness ==
    /\ \A e \in Execs : cli[e].child = "closed" /\ cli[e].code = "0"
    /\ \A e \in Execs : "mode" \in DOMAIN cli[e].res
    /\ cli[1].res.success
    /\ ~cli[2].res.success

SanitizedStdout(e) == Trim(sanitizeOutput(cli[e].captured))

\* C30: when the child's close resolves the call and the trace file is
\* missing, unreadable, not JSON or no trace object, the content is the
\* sanitized captured stdout and the tool calls are those extracted from it;
\* when the file is a trace with a `final_result`, that is the content.
C30_NoTraceFallsBackToStdout ==
    [][\A e \in Execs, file \in TraceFiles :
          ClosesPending(e, file)
              => /\ (file.kind = "trace" /\ file.has_final)
                        => cli'[e].res.content = <<"a">>
                 /\ (file.kind /= "trace")
                        => /\ cli'[e].res.content = SanitizedStdout(e)
                           /\ ("toolCalls" \in DOMAIN cli'[e].res)
                                 => cli'[e].res.toolCalls
                                       = parseToolCalls(SanitizedStdout(e))]_vars

\* C21: an ensureMCPConnected() attempt reports true only if its handshake
\* completed and the listed tools contain `run_trae_agent`; with any other
\* listing outcome it reports false.
C21_TrueOnlyWithTool ==
    \A a \in Attempts :
        conn[a].result = "true" => conn[a].handshake /\ conn[a].tools = "has tool"

\* C22: no caller is told `true` by ensureMCPConnected(), nor awaits callTool,
\* while the attempt that made its client has not settled.
C22_NoTrueBeforeSettled ==
    \A e \in Execs :
        call[e].pc \in {"gotConnect", "awaitCallTool"}
            => conn[call[e].client].result /= "pending"

\* C23: when an attempt fails, no client stays cached, lastMCPIssue holds a
\* reason, and the attempt's transport is closed.
C23_FailedAttemptTornDown ==
    [][\A a \in Attempts :
          (conn[a].result = "pending" /\ conn'[a].result = "false")
              => /\ mcpClient' = 0
                 /\ lastMCPIssue' \notin {None, "connected"}
                 /\ conn'[a].transport = "closed"]_vars

\* C24: ensureMCPConnected() never returns true from the cache for a settled
\* client whose transport has closed.
C24_ClosedClientNotReused ==
    \A e \in Execs :
        (call[e].pc = "gotConnect" /\ conn[call[e].client].result = "true")
            => conn[call[e].client].transport = "started"

CallToolSettles(e) ==
    /\ call[e].pc = "awaitCallTool" /\ call[e].tool = "run_trae_agent"
    /\ call'[e].pc /= "awaitCallTool"

\* C25: when the run_trae_agent call settles, executeAgent returns mode `mcp`
\* with success = true and the concatenated text if that text is non-empty, and
\* otherwise runs the CLI fallback, whose result is the call's response.
C25_McpOnlyWithText ==
    [][\A e \in Execs :
          CallToolSettles(e)
              => \/ /\ call'[e].pc = "returned"
                    /\ call'[e].res.mode = "mcp"
                    /\ call'[e].res.success
                    /\ call'[e].res.content /= <<>>
                 \/ /\ call'[e].pc = "cli"
                    /\ cli[e].st = "idle" /\ cli'[e].st = "pending"
                    /\ Response(e)' = cli'[e].res]_vars

\* A tool call that returned only an empty text and an image ended in a
\* resolved CLI fallback, next to a call answered over MCP.
C25_Witness ==
    /\ call[1].pc = "cli" /\ lastMCPIssue = "MCP tool returned empty content"
    /\ cli[1].st = "resolved" /\ Response(1).mode = "cli"
    /\ call[2].pc = "returned" /\ Response(2) =
           [success |-> TRUE, content |-> <<"a">>, mode |-> "mcp"]

\* A call of executeAgent or executeAgentSession on an available service
\* without a working directory takes its first step.
EntersWithoutWd(e) ==
    /\ call[e].pc = "idle" /\ call'[e].pc /= "idle"
    /\ call'[e].wd = None
    /\ isAvailable

\* A step of the handleAIMessage call itself.
MessageStep == msg.pc \notin {"none", "done"} /\ msg'.pc /= msg.pc

\* C26: a call of executeAgent or executeAgentSession without a working
\* directory returns the working-directory error at once, with no MCP attempt
\* started and no CLI child spawned; and no step of a provider message spawns
\* the Codex process or writes its initialize request, a message without a
\* working directory ending in the warning with nothing sent to the agent.
C26_NoWdFailsBeforeSpawn ==
    [][/\ \A e \in Execs :
             EntersWithoutWd(e)
                 => /\ call'[e].pc = "returned"
                    /\ call'[e].res = [success |-> FALSE, content |-> <<>>,
                                       error |-> NoWorkingDirectoryError]
                    /\ UNCHANGED <<conn, mcpClient, mcpTransport, mcpConnectingPromise,
                                   cli, currentProcess>>
       /\ MessageStep => spawnCount' = spawnCount /\ initWritten' = initWritten
       /\ (MessageStep /\ msg.pc \in {"resolveWd", "agentWd"})
             => \/ /\ msg'.outcome = "no working directory"
                   /\ UNCHANGED <<svcVars, obsVars, traeVars, mcpVars>>
                \/ msg'.pc = "sending" /\ caller'[1].wd \in Cwds
                \/ msg'.pc = "awaitAgent" /\ call'[1].wd /= None]_vars

\* executeAgent and executeAgentSession have both been called without a
\* working directory on an available service and returned the error; no MCP
\* attempt and no CLI execution exists.
C26_Witness ==
    /\ isAvailable
    /\ {call[e].kind : e \in Execs} = {"agent", "session"}
    /\ \A e \in Execs : /\ call[e].pc = "returned" /\ call[e].wd = None
                        /\ call[e].res.error = NoWorkingDirectoryError
                        /\ cli[e].st = "idle"
    /\ \A a \in Attempts : conn[a].pc = "none"

\* C27: a message handled in agent mode is given to one of the two agent
\* backends or ends in a reported failure: it is never given to the default
\* model, and handleAIMessage never ends by an exception.
C27_AgentModeNeverDefaultModel ==
    /\ (msg.pc = "default" => ~msg.agentMode)
    /\ msg.outcome /= "exception"

\* C36: a timer of one CLI execution signals no child but its own, and the
\* 'close' or 'error' listener of one execution does not clear the process
\* handle while it holds the child of another execution.
C36_OwnChildOnly ==
    [][\A e \in Execs :
          /\ TimerFires(e)
                => \A x \in Execs \ {e} : cli'[x].sig = cli[x].sig
          /\ (cli'[e].child /= cli[e].child /\ cli'[e].child \in {"closed", "errored"})
                => (currentProcess \notin {0, e} => currentProcess' = currentProcess)
      ]_vars

\* C37: the response of a CLI execution is set once: after the first of
\* inactivity timeout, overall timeout, 'close' and 'error' has resolved the
\* promise, no later event changes the response or makes the call pending.
C37_ResolvedOnce ==
    [][\A e \in Execs :
          cli[e].st = "resolved"
              => (cli'[e].st = "resolved" /\ cli'[e].res = cli[e].res)]_vars

\* The inactivity timer resolved the call and the child has closed since:
\* the response is still the one of the inactivity timeout.
C37_Witness ==
    \E e \in Execs :
        /\ cli[e].st = "resolved" /\ "error" \in DOMAIN cli[e].res
        /\ cli[e].res.error = TimedOut
        /\ cli[e].child = "closed"

\* C39: once the promise of an execution has resolved, onProgress is not
\* given any further output of that execution.
C39_NoProgressAfterResolve ==
    [][\A e \in Execs :
          cli[e].st = "resolved" => cli'[e].progress = cli[e].progress]_vars

\* What is left of a text when its ANSI escape sequences, bracketed tags and
\* box-drawing characters are taken out and nothing else is touched.
WithoutListed(text) == StripBox(StripRich(StripAnsi(text)))

\* C32: sanitizeOutput(text) is text without its ANSI escape sequences,
\* bracketed style tags and box-drawing characters; every other character,
\* every carriage return and newline included, is kept unchanged and in order.
C32_RemovesOnlyListed ==
    \A e \in Execs :
        sanitizeOutput(cli[e].captured) = WithoutListed(cli[e].captured)

\* The request with id i has been handed to stdin.write and its write
\* callback has not run yet.
WriteOutstanding(i) ==
    \/ sp.pc = "initWrite" /\ sp.req = i
    \/ \E c \in Callers : /\ caller[c].pc \in {"threadWrite", "turnWrite", "intrWrite"}
                          /\ caller[c].req = i

\* C34: no response is lost to a registration race: whenever a response to a
\* written request can be read and dispatched by handleResponse, the
\* PendingRequest of that request is registered, whatever the order of the
\* write callback and the stdout line.
C34_RegisteredBeforeDispatch ==
    \A m \in ResponseLines :
        (/\ WriteOutstanding(m.id)
         /\ Route(m) = "handleResponse"
         /\ AgentSends(m)
         /\ ENABLED (handleLine(m) /\ NotFacade))
            => m.id \in pendingRequests

\* C35: the turn/start request of a sendMessage(text, wd) call names a thread
\* that was started with cwd = wd (the thread the service has on record, and
\* recorded with that directory), also when calls with different directories
\* overlap.
C35_TurnOnThreadOfItsDirectory ==
    [][\A c \in Callers :
          (caller[c].pc \in {"awaitInit", "threadStarted"} /\ caller'[c].pc = "turnWrite")
              => /\ caller'[c].thread = threadId
                 /\ threadCwd = caller[c].wd]_vars

\* C38: isAvailable() is true only while the service is not disposed, its
\* process is running and startProcess has received the initialize response.
C38_AvailableMeansReady ==
    available => (~disposed /\ process = "running" /\ sp.pc = "done")

\* The tool_calls elements of a trace in the order top level, then step by
\* step, and its tool_results elements.
RECURSIVE StepEntries(_, _)
StepEntries(steps, field) ==
    IF steps = <<>> THEN <<>>
    ELSE Head(steps)[field] \o StepEntries(Tail(steps), field)
AllEntries(data, field) == data[field] \o StepEntries(data.agent_steps, field)

\* A tool result and a tool call carry the same call id (a number and the
\* string of its digits count as the same id).
SameCallId(tr, tc) ==
    /\ tr.call_id /= Undefined /\ tc.call_id /= Undefined
    /\ StringOf(tr.call_id) = StringOf(tc.call_id)

\* C31: parseTrajectoryFile returns one entry per element of the tool_calls
\* arrays, top level first and then step by step; the entry's result is the
\* `result` of a tool-result element with the same call id, whatever the id
\* is (0 included), and a call without such an element has no result.
C31_CallsCorrelatedById ==
    trajResult.parsed =>
        LET calls == AllEntries(trajectory, "tool_calls")
            results == AllEntries(trajectory, "tool_results")
            out == trajResult.toolCalls
        IN  /\ Len(out) = Len(calls)
            /\ \A i \in 1..Len(calls) :
                  LET matching == {k \in 1..Len(results) :
                                      SameCallId(results[k], calls[i])}
                  IN  /\ out[i].name = calls[i].name
                      /\ IF matching = {}
                            THEN out[i].result = Undefined
                            ELSE out[i].result \in {results[k].result : k \in matching}

\* The status call reported a session in state WAITING.
ReportsWaiting(status) == ~status.throws /\ Trim(status.text) = <<JsonWaiting>>

\* C33: executeAgentSession asks for the session status first and calls
\* inject_observation (with the message as observation) exactly when the
\* reported state is WAITING; in every other case (no active session, the
\* query failed, a text that cannot be parsed, any other state) it calls
\* start_agent_session with the message and the working directory.
C33_InjectIffWaiting ==
    [][\A e \in Execs :
          /\ (call[e].kind = "session" /\ call'[e].pc = "awaitCallTool"
                /\ call[e].pc /= "awaitCallTool")
                => /\ call[e].pc = "awaitStatus" /\ call[e].tool = "get_session_status"
                   /\ IF ReportsWaiting(call'[e].status)
                         THEN /\ call'[e].tool = "inject_observation"
                              /\ call'[e].args.observation = "message"
                         ELSE /\ call'[e].tool = "start_agent_session"
                              /\ call'[e].args.message = "message"
                              /\ call'[e].args.project_path = "set"
          /\ (call'[e].pc = "awaitStatus" /\ call[e].pc /= "awaitStatus")
                => call'[e].tool = "get_session_status"]_vars

\* The status was a text that is no JSON, and the call has started a session.
C33_Witness ==
    /\ call[1].kind = "session" /\ call[1].pc = "awaitCallTool"
    /\ call[1].status.text = <<NotJson>>
    /\ call[1].tool = "start_agent_session"

\* C40: executeAgent does not report a run_trae_agent result that the server
\* flagged as an error as a success in MCP mode.
C40_FlaggedResultNotSuccess ==
    \A e \in Execs :
        (call[e].pc = "returned" /\ call[e].kind = "agent" /\ call[e].flagged)
            => ~(call[e].res.success /\ "mode" \in DOMAIN call[e].res
                    /\ call[e].res.mode = "mcp")

====
